---------------------------- MODULE Spec2Model ----------------------------
(***************************************************************************)
(* nexus3d: resolution of NXtransformation chains into affine matrices     *)
(* (nexus3d/nexus_transformations.py, nexus3d/matrix.py) and the writers   *)
(* and mesh readers that consume them (nexus3d/formats/).                  *)
(*                                                                         *)
(* Numbers.  The program computes with floating point; the model computes  *)
(* with integers on a grid on which the program's arithmetic is exact:     *)
(* angles are kept in quarter turns (pi/2 rad), so that cos and sin are    *)
(* 0, 1 or -1, axes are axis-aligned, lengths are whole metres.            *)
(*                                                                         *)
(* Strings.  A path "a/b/c" is the record [abs |-> FALSE, segs |->         *)
(* <<"a","b","c">>]; abs says that the string starts with "/".             *)
(***************************************************************************)
EXTENDS Integers, Sequences, FiniteSets, TLC

(***************************************************************************)
(* Bounds of the model.                                                    *)
(***************************************************************************)
\* longest dependency chain of a container
MaxChain == 2
\* longest 1-D (parametric) field
MaxSamples == 2

(***************************************************************************)
(* Paths                                                                   *)
(***************************************************************************)
Path(abs, segs) == [abs |-> abs, segs |-> segs]
NoPath == Path(FALSE, <<>>)
\* the sentinel "." of depends_on
Dot == Path(FALSE, <<".">>)
\* "/" in s
HasSlash(p) == p.abs \/ Len(p.segs) > 1
\* s.rsplit("/", 1)[0]
RSplitHead(p) == Path(p.abs, SubSeq(p.segs, 1, Len(p.segs) - 1))
\* f"{a}/{b}"
JoinPath(a, b) == Path(a.abs, a.segs \o b.segs)
\* h5py addresses the same object with and without the leading "/"
H5Key(p) == p.segs

(***************************************************************************)
(* Exceptions.  Every outcome of an operation is a record of one shape.    *)
(***************************************************************************)
NoErr == [exc |-> "", what |-> "", attr |-> "", path |-> NoPath]
Exc(exc, what, attr, path) == [exc |-> exc, what |-> what, attr |-> attr, path |-> path]

(***************************************************************************)
(* 4x4 matrices (numpy arrays of shape (4, 4))                             *)
(***************************************************************************)
Identity4 == << <<1, 0, 0, 0>>, <<0, 1, 0, 0>>, <<0, 0, 1, 0>>, <<0, 0, 0, 1>> >>

\* np.matmul(a, b): the first argument is the left factor
matmul(a, b) ==
    [i \in 1..4 |-> [j \in 1..4 |->
        a[i][1] * b[1][j] + a[i][2] * b[2][j] + a[i][3] * b[3][j] + a[i][4] * b[4][j]]]

Abs(n) == IF n < 0 THEN -n ELSE n
\* numpy.linalg.norm of an axis-aligned vector
norm(v) == Abs(v[1]) + Abs(v[2]) + Abs(v[3])
\* np.cos, np.sin of an angle given in quarter turns
cos(q) == CASE q % 4 = 0 -> 1 [] q % 4 = 1 -> 0 [] q % 4 = 2 -> -1 [] OTHER -> 0
sin(q) == CASE q % 4 = 0 -> 0 [] q % 4 = 1 -> 1 [] q % 4 = 2 -> 0 [] OTHER -> -1

Zeros3 == <<0, 0, 0>>
VecAdd(a, b) == <<a[1] + b[1], a[2] + b[2], a[3] + b[3]>>
VecScale(k, v) == <<k * v[1], k * v[2], k * v[3]>>

\* a builder that lays the matrix out by columns
Built_by_columns(m) ==
    [ok |-> TRUE, m |-> [r \in 1..4 |-> [c \in 1..4 |-> m[c][r]]], err |-> NoErr]
\* the outcome of building a local matrix: a matrix or an exception
Built(m) == [ok |-> TRUE, m |-> m, err |-> NoErr]
BuildRaised(e) == [ok |-> FALSE, m |-> Identity4, err |-> e]

\* nexus3d.matrix.rotate
rotate(angle, axis, offset, left_handed) ==
    LET n == norm(axis)
        v_x == axis[1] \div n
        v_y == axis[2] \div n
        v_z == axis[3] \div n
        cosa == cos(angle)
        cosa1 == 1 - cosa
        sina == sin(angle)
    IN  IF left_handed
        THEN Built(<<
              <<cosa + v_x * v_x * cosa1, v_x * v_z * cosa1 + v_y * sina,
                v_x * v_y * cosa1 - v_z * sina, offset[1]>>,
              <<v_z * v_x * cosa1 - v_y * sina, cosa + v_z * v_z * cosa1,
                v_z * v_y * cosa1 + v_x * sina, offset[3]>>,
              <<v_y * v_x * cosa1 + v_z * sina, v_y * v_z * cosa1 - v_x * sina,
                cosa + v_y * v_y * cosa1, offset[2]>>,
              <<0, 0, 0, 1>> >>)
        ELSE Built(<<
              <<cosa + v_x * v_x * cosa1, v_x * v_y * cosa1 - v_z * sina,
                v_x * v_z * cosa1 + v_y * sina, offset[1]>>,
              <<v_y * v_x * cosa1 + v_z * sina, cosa + v_y * v_y * cosa1,
                v_y * v_z * cosa1 - v_x * sina, offset[2]>>,
              <<v_z * v_x * cosa1 - v_y * sina, v_z * v_y * cosa1 + v_x * sina,
                cosa + v_z * v_z * cosa1, offset[3]>>,
              <<0, 0, 0, 1>> >>)

\* nexus3d.matrix.translate.  The assignment
\*     x, y, z = trans[0], trans[2], trans[1] if left_handed else trans
\* is the 3-tuple (trans[0], trans[2], (trans[1] if left_handed else trans)):
\* right-handed, z is the whole vector, and np.array of the ragged nested
\* list raises ValueError (numpy >= 1.24) or yields an object array that the
\* caller cannot store in its float64 array (older numpy): no matrix either way.
translate(translation, offset, left_handed) ==
    LET trans == VecAdd(translation, offset)
        x == trans[1]
        y == trans[3]
    IN  IF left_handed
        THEN Built(<< <<1, 0, 0, x>>, <<0, 1, 0, y>>, <<0, 0, 1, trans[2]>>, <<0, 0, 0, 1>> >>)
        ELSE BuildRaised(Exc("ValueError", "inhomogeneous_shape", "", NoPath))


(***************************************************************************)
(* The unit registry (nexus3d.units.ureg, a pint registry).  The magnitude *)
(* in base units of a quantity: metres for lengths, quarter turns on the   *)
(* model's angle grid for angles, the number itself without a unit.        *)
(***************************************************************************)
to_base_units(value, unit) ==
    CASE unit = "m" -> value
      [] unit = "km" -> 1000 * value
      [] unit = "deg" -> value \div 90
      [] OTHER -> value

(***************************************************************************)
(* Matrix families (xarray.DataArray with dims [entry..., "m1", "m2"]):    *)
(* one named axis per record on the chain, and the 4x4 matrices in         *)
(* row-major order of those axes.                                          *)
(***************************************************************************)
Family(dims, shape, mats) == [dims |-> dims, shape |-> shape, mats |-> mats]
EmptyFamily == Family(<<>>, <<>>, <<>>)

\* xr.apply_ufunc(np.matmul, parent, matrices, ..., vectorize=True): the
\* axes of both arguments are broadcast by name, the first argument's first
apply_ufunc_matmul(parent, matrices) ==
    LET np == Len(parent.mats)
        nl == Len(matrices.mats)
    IN  Family(parent.dims \o matrices.dims, parent.shape \o matrices.shape,
               [k \in 1..(np * nl) |->
                   matmul(parent.mats[((k - 1) \div nl) + 1],
                          matrices.mats[((k - 1) % nl) + 1])])

(***************************************************************************)
(* get_transformation_matrix                                               *)
(***************************************************************************)
\* a check that does not ask for units
required_attrs_without_units == <<"depends_on", "vector", "transformation_type">>
required_attrs == <<"depends_on", "vector", "transformation_type", "units">>

\* the types isinstance() accepts for a 0-D field
ScalarTypes == {"int", "float", "int32", "int64", "float32", "float64"}

\* the name the check of line 73 looks for
OffsetUnitGuardAttr == "offsets_units"
\* the name line 78 reads the unit from
OffsetUnitReadAttr == "offset_unit"

\* the outcome of one call: the matrices, the exception, the OrderedDict
\* matrix_chain as the call leaves it, and the entries the call and its
\* recursive calls were made for, in call order
Returned(val, chain, visited) ==
    [ok |-> TRUE, val |-> val, err |-> NoErr, chain |-> chain, visited |-> visited]
Raised(e, chain, visited) ==
    [ok |-> FALSE, val |-> EmptyFamily, err |-> e, chain |-> chain, visited |-> visited]

\* matrix_chain[entry] = matrix on an OrderedDict
DictSet(d, key, val) ==
    IF \E i \in 1..Len(d) : d[i].key = key
    THEN [i \in 1..Len(d) |-> IF d[i].key = key THEN [key |-> key, val |-> val] ELSE d[i]]
    ELSE Append(d, [key |-> key, val |-> val])

\* store_in_chain: the chain after the call (the matrix itself is returned unchanged)
store_in_chain(store_intermediate, matrix_chain, entry, matrix) ==
    IF store_intermediate THEN DictSet(matrix_chain, entry, matrix) ELSE matrix_chain

\* lines 73-79: the exception of the offset check, or the offset in base units
offset_check(attrs) == "offset" \in attrs /\ OffsetUnitGuardAttr \notin attrs

offset_si(rec) ==
    LET offset == IF "offset" \in rec.attrs THEN rec.offset ELSE Zeros3
        offset_unit == IF OffsetUnitReadAttr \in rec.attrs THEN rec.offset_unit ELSE ""
    IN  <<to_base_units(offset[1], offset_unit), to_base_units(offset[2], offset_unit),
          to_base_units(offset[3], offset_unit)>>

\* lines 83-100: the number of matrices of the field, or -1 for a field that
\* is neither a 1-D array nor a scalar of an accepted type
field_count(rec) ==
    IF rec.ndim = 1 THEN Len(rec.data)
    ELSE IF rec.ndim = 0 /\ rec.dtype \in ScalarTypes THEN 1
    ELSE -1

\* lines 102-117, one pass of the loop; attrs[...] of an absent attribute
\* raises KeyError
local_matrix(rec, field, left_handed) ==
    LET field_si == to_base_units(field, rec.units)
    IN  IF "units" \notin rec.attrs
        THEN BuildRaised(Exc("KeyError", "no_such_attribute", "units", NoPath))
        ELSE IF "transformation_type" \notin rec.attrs
        THEN BuildRaised(Exc("KeyError", "no_such_attribute", "transformation_type", NoPath))
        ELSE IF rec.transformation_type = "translation"
        THEN translate(VecScale(field_si, rec.vector), offset_si(rec), left_handed)
        ELSE IF rec.transformation_type = "rotation"
        THEN rotate(field_si, rec.vector, offset_si(rec), left_handed)
        ELSE BuildRaised(Exc("ValueError", "unknown_transformation_type", "", NoPath))

\* lines 81-117: the family of local matrices of a record, or the exception
\* of the first sample that raises
local_matrices(rec, entry, left_handed) ==
    LET n == field_count(rec)
        built == [i \in 1..n |-> local_matrix(rec, rec.data[i], left_handed)]
    IN  IF "vector" \notin rec.attrs
        THEN Raised(Exc("KeyError", "no_such_attribute", "vector", NoPath), <<>>, <<>>)
        ELSE IF n < 0
        THEN Raised(Exc("NotImplementedError", "field_shape", "", entry), <<>>, <<>>)
        ELSE IF \E i \in 1..n : ~built[i].ok
        THEN Raised(built[CHOOSE i \in 1..n : ~built[i].ok /\ \A j \in 1..(i - 1) : built[j].ok].err,
                    <<>>, <<>>)
        ELSE Returned(Family(<<entry>>, <<n>>, [i \in 1..n |-> built[i].m]), <<>>, <<>>)

\* the lookup without the sibling rule of lines 139-141
parent_entry_as_given(entry, depends_on) == depends_on

\* lines 122-147: the entry of the record that depends_on names
parent_entry(entry, depends_on) ==
    IF HasSlash(depends_on) THEN depends_on
    ELSE JoinPath(RSplitHead(entry), depends_on)

RECURSIVE get_transformation_matrix(_, _, _, _, _)
get_transformation_matrix(h5file, entry, left_handed, store_intermediate, matrix_chain) ==
    IF H5Key(entry) \notin DOMAIN h5file
    THEN Raised(Exc("KeyError", "no_such_object", "", entry), matrix_chain, <<entry>>)
    ELSE
    LET rec == h5file[H5Key(entry)]
        missing == SelectSeq(required_attrs, LAMBDA a : a \notin rec.attrs)
        local == local_matrices(rec, entry, left_handed)
    IN  IF missing # <<>>
        THEN Raised(Exc("ValueError", "attribute_not_found", Head(missing), entry),
                    matrix_chain, <<entry>>)
        ELSE IF offset_check(rec.attrs)
        THEN Raised(Exc("ValueError", "no_offset_units", "offset", entry),
                    matrix_chain, <<entry>>)
        ELSE IF ~local.ok
        THEN Raised(local.err, matrix_chain, <<entry>>)
        ELSE IF "depends_on" \notin rec.attrs
        THEN Raised(Exc("KeyError", "no_such_attribute", "depends_on", NoPath),
                    matrix_chain, <<entry>>)
        ELSE IF rec.depends_on = Dot
        THEN Returned(local.val,
                      store_in_chain(store_intermediate, matrix_chain, entry, local.val),
                      <<entry>>)
        ELSE
        LET parent == get_transformation_matrix(
                          h5file, parent_entry(entry, rec.depends_on), left_handed,
                          store_intermediate, matrix_chain)
            product == apply_ufunc_matmul(parent.val, local.val)
        IN  IF ~parent.ok
            THEN Raised(parent.err, parent.chain, <<entry>> \o parent.visited)
            ELSE Returned(product,
                          store_in_chain(store_intermediate, parent.chain, entry, product),
                          <<entry>> \o parent.visited)

(***************************************************************************)
(* transformation_matrices_xarray: registration of the frames              *)
(***************************************************************************)
\* the path segments of the model's containers that start with "process"
ProcessSegments == {"process", "process_steps"}

\* name.startswith("entry/process")
starts_with_entry_process(name) ==
    /\ ~name.abs
    /\ Len(name.segs) >= 2
    /\ name.segs[1] = "entry"
    /\ name.segs[2] \in ProcessSegments

\* "depends_on" in name, for names whose segments hold it whole or not at all
contains_depends_on(name) == \E i \in 1..Len(name.segs) : name.segs[i] = "depends_on"

\* lines 155-157: the key a depends_on dataset is registered under
group_name(name, minor_lt_9) ==
    IF minor_lt_9
    THEN LET head == IF Len(name.segs) > 1 THEN SubSeq(name.segs, 1, Len(name.segs) - 1)
                     ELSE name.segs
         IN  Path(FALSE, IF Len(head) > 1 THEN Tail(head) ELSE head)
    ELSE LET cut == IF Len(name.segs) > 1 /\ name.segs[Len(name.segs)] = "depends_on"
                    THEN SubSeq(name.segs, 1, Len(name.segs) - 1)
                    ELSE name.segs
         IN  Path(FALSE, IF Len(cut) > 1 /\ cut[1] = "entry" THEN Tail(cut) ELSE cut)

\* h5file.visititems(get_transformation_group_names) over the datasets
\* visited so far: the dict transformation_groups, in insertion order
RECURSIVE visititems(_, _, _, _)
visititems(datasets, include_process, minor_lt_9, groups) ==
    IF datasets = <<>> THEN groups
    ELSE LET d == Head(datasets)
             skip == (~include_process /\ starts_with_entry_process(d.name))
                     \/ ~contains_depends_on(d.name)
         IN  visititems(Tail(datasets), include_process, minor_lt_9,
                        IF skip THEN groups
                        ELSE DictSet(groups, group_name(d.name, minor_lt_9), d.value))

\* lines 169-170: the entry resolution of a frame starts at
start_entry(name, transformation_group) ==
    IF HasSlash(transformation_group) /\ ~transformation_group.abs
    THEN JoinPath(name, transformation_group)
    ELSE transformation_group

\* line 167: the chain a frame's resolution starts with
new_matrix_chain(old) == <<>>

\* lines 196-203: value.values.flat[:16].reshape(4, 4)
flat16(family) ==
    IF Len(family.mats) = 0
    THEN [ok |-> FALSE, m |-> Identity4, err |-> Exc("ValueError", "cannot_reshape", "", NoPath)]
    ELSE [ok |-> TRUE, m |-> family.mats[1], err |-> NoErr]

(***************************************************************************)
(* Containers of the model.  One group of transformation records that form *)
(* a chain ax1 <- ax2 <- ...; the manipulator frame starts at the last     *)
(* record, the sample frame at the one before it, and a frame inside the   *)
(* process sub-tree at the root record.                                    *)
(***************************************************************************)
AxisNames == <<"ax1", "ax2", "ax3", "ax4", "ax5">>
TransformationsGroup == <<"entry", "instrument", "manipulator", "transformations">>
RecordEntry(i) == Path(TRUE, Append(TransformationsGroup, AxisNames[i]))

XAxis == <<1, 0, 0>>
ZAxis == <<0, 0, 1>>

\* a well-formed record with a scalar field: a quarter turn or one metre
PlainRecord(type, vector) ==
    [attrs |-> {"depends_on", "vector", "transformation_type", "units"},
     depends_on |-> Dot,
     vector |-> vector,
     transformation_type |-> type,
     units |-> IF type = "rotation" THEN "deg" ELSE "m",
     offset |-> Zeros3,
     offset_unit |-> "",
     ndim |-> 0,
     dtype |-> "float64",
     data |-> IF type = "rotation" THEN <<90>> ELSE <<1>>]

PlainRecords ==
    {PlainRecord(t, v) : t \in {"rotation", "translation"}, v \in {XAxis, ZAxis}}

\* what one record of a container may differ in from a plain record
Variant(kind, attr, attrs, n) == [kind |-> kind, attr |-> attr, attrs |-> attrs, n |-> n]
Variants ==
    {Variant("plain", "", {}, 0)}
    \cup {Variant("drop_attr", a, {}, 0) :
            a \in {"depends_on", "vector", "transformation_type", "units"}}
    \cup {Variant("unknown_type", "", {}, 0)}
    \cup {Variant("offset", "", as, 0) :
            as \in {{"offset"}, {"offset", "offset_unit"}, {"offset", "offsets_units"},
                    {"offset", "offset_unit", "offsets_units"}}}
    \cup {Variant("field_1d", "", {}, n) : n \in 0..MaxSamples}
    \cup {Variant("field_2d", "", {}, 0)}
    \cup {Variant("dtype", "uint16", {}, 0)}

ApplyVariant(rec, v) ==
    CASE v.kind = "drop_attr" -> [rec EXCEPT !.attrs = @ \ {v.attr}]
      [] v.kind = "unknown_type" -> [rec EXCEPT !.transformation_type = "scaling"]
      [] v.kind = "offset" ->
            [rec EXCEPT !.attrs = @ \cup v.attrs, !.offset = <<1, 2, 3>>, !.offset_unit = "km"]
      [] v.kind = "field_1d" ->
            [rec EXCEPT !.ndim = 1, !.data = [i \in 1..v.n |-> i * rec.data[1]]]
      [] v.kind = "field_2d" -> [rec EXCEPT !.ndim = 2, !.data = <<rec.data[1], rec.data[1]>>]
      [] v.kind = "dtype" -> [rec EXCEPT !.dtype = v.attr]
      [] OTHER -> rec

\* depends_on of the i-th record of the chain, as a sibling name or as a path
Link(i, absolute) ==
    IF i = 1 THEN Dot
    ELSE IF absolute THEN RecordEntry(i - 1)
    ELSE Path(FALSE, <<AxisNames[i - 1]>>)

ManipulatorLink == Path(FALSE, <<"entry", "instrument", "manipulator", "depends_on">>)
ProcessLink == Path(FALSE, <<"entry", "process", "registration", "depends_on">>)
SampleLink == Path(FALSE, <<"entry", "sample", "depends_on">>)

\* the container: its transformation records by h5py key, and its
\* depends_on datasets in the order visititems meets them
Container(n, plain, pos, variant, absolute) ==
    [records |->
        [key \in {H5Key(RecordEntry(i)) : i \in 1..n} |->
            LET i == CHOOSE j \in 1..n : H5Key(RecordEntry(j)) = key
                rec == [plain[i] EXCEPT !.depends_on = Link(i, absolute)]
            IN  IF i = pos THEN ApplyVariant(rec, variant) ELSE rec],
     datasets |->
        << [name |-> ManipulatorLink, value |-> RecordEntry(n)],
           [name |-> ProcessLink, value |-> RecordEntry(1)],
           [name |-> SampleLink, value |-> RecordEntry(IF n > 1 THEN n - 1 ELSE 1)] >>]

Containers ==
    {Container(c[1], c[2], c[3], c[4], c[5]) :
        c \in
            UNION {{<<n, plain, pos, variant, absolute>> :
                        plain \in [1..n -> PlainRecords],
                        pos \in 1..n, variant \in Variants, absolute \in BOOLEAN}
                   : n \in 1..MaxChain}}

(***************************************************************************)
(* State                                                                   *)
(***************************************************************************)
VARIABLES
    h5file,                   \* the container read by the resolver
    left_handed,              \* cs_config.left_handed
    include_process,          \* argument of the resolver calls of the run
    store_intermediate,       \* argument of the call in progress
    pc,                       \* "idle", "loop" (line 165), "flatten" (line 195)
    transformation_groups,    \* dict: frame name -> depends_on value
    frame_index,              \* position of the loop of line 165
    matrix_chain,             \* the OrderedDict store_in_chain writes to
    transformation_matrices,  \* dict being built by the loop of line 165
    tmatrices,                \* outcome of transformation_matrices_xarray, per store_intermediate
    tmatrices_flat,           \* outcome of transformation_matrices_from, per store_intermediate
    trace,                    \* history: per frame of the call in progress, the entries
                              \* get_transformation_matrix was called for and its outcome
    cli_args,                 \* the command line and the file system cli() is invoked with
    cli_result,               \* how the invocation of cli() ended
    stl_vectors,              \* mesh.Mesh.from_file(filename).vectors: the triangle list
    unit,                     \* argument unit of get_mesh_from_stl
    mesh_result,              \* outcome of get_mesh_from_stl, per module
    cli_input,                \* the WriterInput write_stl_file is called with
    stl_pc,                   \* "start", "cubes" (line 47), "save" (line 73), "done"
    stl_frame,                \* position of the loop of line 47
    scene,                    \* the cubes concatenated so far
    stl_result,               \* outcome of write_stl_file and the file it left
    call,                     \* a call of one of the pure functions: its name and arguments
    result,                   \* what the call returned or raised
    gltf_input,               \* the WriterInput write_gltf_file is called with
    gltf_pc,                  \* the step write_gltf_file is at
    gltf,                     \* the pygltflib.GLTF2 object being filled
    gltf_indices,             \* the list `indices` of write_gltf_file
    gltf_vertices,            \* the list `vertices` of write_gltf_file
    mesh_indices,             \* dict: frame name -> index of its mesh
    gltf_result               \* outcome of write_gltf_file and the file it left

resolver_vars ==
    <<h5file, left_handed, include_process, store_intermediate, pc, transformation_groups,
      frame_index, matrix_chain, transformation_matrices, tmatrices, tmatrices_flat, trace>>

cli_vars == <<cli_args, cli_result>>
mesh_vars == <<stl_vectors, unit, mesh_result>>
stl_vars == <<cli_input, stl_pc, stl_frame, scene, stl_result>>

fn_vars == <<call, result>>
gltf_vars ==
    <<gltf_input, gltf_pc, gltf, gltf_indices, gltf_vertices, mesh_indices, gltf_result>>
later_vars == <<fn_vars, gltf_vars>>

vars == <<resolver_vars, cli_vars, mesh_vars, stl_vars, later_vars>>

\* the components a specification does not exercise stay as they are here
NoCall == [status |-> "none"]
CliIdle == cli_args = NoCall /\ cli_result = NoCall
MeshIdle == stl_vectors = <<>> /\ unit = "None" /\ mesh_result = NoCall
StlIdle ==
    /\ cli_input = NoCall
    /\ stl_pc = "done"
    /\ stl_frame = 1
    /\ scene = <<>>
    /\ stl_result = NoCall
FnIdle == call = NoCall /\ result = NoCall
GltfIdle ==
    /\ gltf_input = NoCall
    /\ gltf_pc = "done"
    /\ gltf = NoCall
    /\ gltf_indices = <<>>
    /\ gltf_vertices = <<>>
    /\ mesh_indices = <<>>
    /\ gltf_result = NoCall
LaterIdle == FnIdle /\ GltfIdle

NotCalled == [status |-> "none", val |-> <<>>, err |-> NoErr]
CallReturned(val) == [status |-> "ok", val |-> val, err |-> NoErr]
CallRaised(e) == [status |-> "raised", val |-> <<>>, err |-> e]

\* line 176: the value stored for a frame
frame_value(is_chain, chain, matrix) ==
    IF is_chain THEN [is_chain |-> TRUE, matrix |-> EmptyFamily, chain |-> chain]
    ELSE [is_chain |-> FALSE, matrix |-> matrix, chain |-> <<>>]

\* lines 195-203 for one frame
flatten_value(value) ==
    IF value.is_chain
    THEN LET subs == [i \in 1..Len(value.chain) |-> flat16(value.chain[i].val)]
         IN  IF \E i \in 1..Len(subs) : ~subs[i].ok
             THEN [ok |-> FALSE, err |-> Exc("ValueError", "cannot_reshape", "", NoPath),
                   val |-> [is_chain |-> TRUE, matrix |-> Identity4, chain |-> <<>>]]
             ELSE [ok |-> TRUE, err |-> NoErr,
                   val |-> [is_chain |-> TRUE, matrix |-> Identity4,
                            chain |-> [i \in 1..Len(subs) |->
                                          [key |-> value.chain[i].key, val |-> subs[i].m]]]]
    ELSE LET one == flat16(value.matrix)
         IN  [ok |-> one.ok, err |-> one.err,
              val |-> [is_chain |-> FALSE, matrix |-> one.m, chain |-> <<>>]]

InitResolver ==
    /\ h5file \in Containers
    /\ left_handed \in BOOLEAN
    /\ include_process \in BOOLEAN
    /\ store_intermediate = FALSE
    /\ pc = "idle"
    /\ transformation_groups = <<>>
    /\ frame_index = 1
    /\ matrix_chain = <<>>
    /\ transformation_matrices = <<>>
    /\ tmatrices = [s \in BOOLEAN |-> NotCalled]
    /\ tmatrices_flat = [s \in BOOLEAN |-> NotCalled]
    /\ trace = <<>>

\* transformation_matrices_from(fname, include_process, si) is called and
\* transformation_matrices_xarray runs up to the loop of line 165.  A run
\* reads the container without and then with the intermediate chain, as
\* tests/test_transformations.py does.
Call(si) ==
    /\ pc = "idle"
    /\ tmatrices_flat[si].status = "none"
    /\ si => tmatrices_flat[FALSE].status # "none"
    /\ store_intermediate' = si
    /\ \E minor_lt_9 \in BOOLEAN :
          transformation_groups' = visititems(h5file.datasets, include_process, minor_lt_9, <<>>)
    /\ transformation_matrices' = <<>>
    /\ frame_index' = 1
    /\ trace' = <<>>
    /\ matrix_chain' = <<>>
    /\ pc' = "loop"
    /\ UNCHANGED <<h5file, left_handed, include_process, tmatrices, tmatrices_flat>>
    /\ UNCHANGED <<cli_vars, mesh_vars, stl_vars, later_vars>>

\* one pass of the loop of lines 165-178; an exception ends both calls
ResolveFrame ==
    /\ pc = "loop"
    /\ frame_index <= Len(transformation_groups)
    /\ LET name == transformation_groups[frame_index].key
           entry == start_entry(name, transformation_groups[frame_index].val)
           chain0 == IF store_intermediate THEN new_matrix_chain(matrix_chain)
                     ELSE matrix_chain
           r == get_transformation_matrix(h5file.records, entry, left_handed,
                                          store_intermediate, chain0)
       IN  /\ matrix_chain' = r.chain
           /\ trace' = Append(trace, [name |-> name, entry |-> entry, visited |-> r.visited,
                                      ok |-> r.ok, err |-> r.err, val |-> r.val,
                                      chain |-> r.chain])
           /\ IF r.ok
              THEN /\ transformation_matrices' =
                          DictSet(transformation_matrices, name,
                                  frame_value(store_intermediate, r.chain, r.val))
                   /\ frame_index' = frame_index + 1
                   /\ UNCHANGED <<pc, tmatrices, tmatrices_flat>>
              ELSE /\ tmatrices' = [tmatrices EXCEPT ![store_intermediate] = CallRaised(r.err)]
                   /\ tmatrices_flat' =
                          [tmatrices_flat EXCEPT ![store_intermediate] = CallRaised(r.err)]
                   /\ pc' = "idle"
                   /\ UNCHANGED <<transformation_matrices, frame_index>>
    /\ UNCHANGED <<h5file, left_handed, include_process, store_intermediate,
                   transformation_groups>>
    /\ UNCHANGED <<cli_vars, mesh_vars, stl_vars, later_vars>>

\* line 180: transformation_matrices_xarray returns
ReturnXarray ==
    /\ pc = "loop"
    /\ frame_index > Len(transformation_groups)
    /\ tmatrices' = [tmatrices EXCEPT ![store_intermediate] = CallReturned(transformation_matrices)]
    /\ pc' = "flatten"
    /\ UNCHANGED <<h5file, left_handed, include_process, store_intermediate,
                   transformation_groups, frame_index, matrix_chain, transformation_matrices,
                   tmatrices_flat, trace>>
    /\ UNCHANGED <<cli_vars, mesh_vars, stl_vars, later_vars>>

\* lines 194-205: transformation_matrices_from flattens and returns
Flatten ==
    /\ pc = "flatten"
    /\ LET got == tmatrices[store_intermediate].val
           flat == [i \in 1..Len(got) |-> flatten_value(got[i].val)]
       IN  tmatrices_flat' =
              [tmatrices_flat EXCEPT ![store_intermediate] =
                  IF \E i \in 1..Len(flat) : ~flat[i].ok
                  THEN CallRaised(Exc("ValueError", "cannot_reshape", "", NoPath))
                  ELSE CallReturned([i \in 1..Len(got) |->
                                        [key |-> got[i].key, val |-> flat[i].val]])]
    /\ pc' = "idle"
    /\ UNCHANGED <<h5file, left_handed, include_process, store_intermediate,
                   transformation_groups, frame_index, matrix_chain, transformation_matrices,
                   tmatrices, trace>>
    /\ UNCHANGED <<cli_vars, mesh_vars, stl_vars, later_vars>>

NextResolver ==
    \/ \E si \in BOOLEAN : Call(si)
    \/ ResolveFrame
    \/ ReturnXarray
    \/ Flatten

Init == InitResolver /\ CliIdle /\ MeshIdle /\ StlIdle /\ LaterIdle
Next == NextResolver
Spec == Init /\ [][Next]_vars

\* the resolver at rest, for the specifications of the other components
ResolverIdle ==
    /\ h5file = [records |-> <<>>, datasets |-> <<>>]
    /\ left_handed = FALSE
    /\ include_process = FALSE
    /\ store_intermediate = FALSE
    /\ pc = "idle"
    /\ transformation_groups = <<>>
    /\ frame_index = 1
    /\ matrix_chain = <<>>
    /\ transformation_matrices = <<>>
    /\ tmatrices = [s \in BOOLEAN |-> NotCalled]
    /\ tmatrices_flat = [s \in BOOLEAN |-> NotCalled]
    /\ trace = <<>>

(***************************************************************************)
(* cli (nexus_transformations.py, lines 298-383)                           *)
(***************************************************************************)
\* what the positional argument FILE names on the file system
InputFiles ==
    {[exists |-> e, isfile |-> f, is_hdf5 |-> h] :
        <<e, f, h>> \in {<<FALSE, FALSE, FALSE>>, <<TRUE, FALSE, FALSE>>,
                         <<TRUE, TRUE, FALSE>>, <<TRUE, TRUE, TRUE>>}}

\* the --config option: "" (the default) or the name of a file
ConfigFile(name, exists, isfile, ext) ==
    [name |-> name, exists |-> exists, isfile |-> isfile, ext |-> ext]
NoConfig == ConfigFile("", FALSE, FALSE, "")
ConfigFiles ==
    {NoConfig,
     ConfigFile("missing.json", FALSE, FALSE, ".json"),
     ConfigFile("folder.json", TRUE, FALSE, ".json"),
     ConfigFile("config.txt", TRUE, TRUE, ".txt"),
     ConfigFile("config.json", TRUE, TRUE, ".json")}

\* extension of the --output option, os.path.splitext(output)[1]
OutputFormats == {".stl", ".gltf", ".glb", ".obj"}
SupportedFormats == {".stl", ".gltf", ".glb"}

\* --size in units of its default (0.1 m)
Sizes == {-1, 0, 1}

CliArgs ==
    [status : {"args"}, file : InputFiles, output_exists : BOOLEAN, force : BOOLEAN,
     file_format : OutputFormats, config : ConfigFiles, size : Sizes,
     blender : BOOLEAN, left_handed : BOOLEAN]

\* the type click hands the --config option over with (no type given,
\* default ""), and whether an object of a type takes a new attribute
ConfigParamType == "str"
setattr_raises(type) == type \in {"str", "int", "float", "bool"}

\* the fields of the dataclass WriterInput and the keywords cli calls it with
WriterInputFields ==
    {"output", "transformation_matrices", "size", "show_beam", "config_dict", "shape"}
WriterInputKeywords ==
    {"output", "transformation_matrices", "size", "show_beam", "beam_blender",
     "config_dict", "shape"}

\* click ends the process with the exit code of a ClickException
\* (FileError 1, UsageError and BadOptionUsage 2); any other exception
\* ends it with 1
Exited(code, exc, line) ==
    [status |-> "exited", exit_code |-> code, exc |-> exc, line |-> line]

cli(args) ==
    IF ~args.file.exists THEN Exited(1, "FileError", 317)
    ELSE IF ~args.file.isfile THEN Exited(1, "FileError", 320)
    ELSE IF ~args.file.is_hdf5 THEN Exited(1, "FileError", 323)
    ELSE IF args.output_exists /\ ~args.force THEN Exited(1, "FileError", 326)
    ELSE IF args.file_format \notin SupportedFormats THEN Exited(2, "UsageError", 332)
    ELSE IF args.config.name # "" /\ (~args.config.exists \/ ~args.config.isfile)
         THEN Exited(1, "FileError", 337)
    ELSE IF args.config.name # "" /\ args.config.ext # ".json"
         THEN Exited(1, "FileError", 342)
    ELSE IF args.size <= 0 THEN Exited(2, "BadOptionUsage", 345)
    ELSE IF setattr_raises(ConfigParamType) THEN Exited(1, "AttributeError", 354)
    ELSE IF ~(WriterInputKeywords \subseteq WriterInputFields)
         THEN Exited(1, "TypeError", 374)
    ELSE Exited(0, "", 383)

InitCli ==
    /\ cli_args \in CliArgs
    /\ cli_result = NoCall
    /\ ResolverIdle /\ MeshIdle /\ StlIdle /\ LaterIdle

\* the command is invoked once
InvokeCli ==
    /\ cli_args # NoCall
    /\ cli_result = NoCall
    /\ cli_result' = cli(cli_args)
    /\ UNCHANGED <<cli_args, resolver_vars, mesh_vars, stl_vars, later_vars>>

NextCli == InvokeCli
SpecCli == InitCli /\ [][NextCli]_vars

(***************************************************************************)
(* get_mesh_from_stl (formats/mesh.py and formats/cube_mesh.py)            *)
(***************************************************************************)
\* most triangles of a stl file of the model
MaxTriangles == 2

\* corner coordinates the files of the model are made of
Points == {<<-1, 0, 0>>, <<0, 0, 0>>, <<0, 1, 0>>}
Triangles == [1..3 -> Points]
StlMeshes == UNION {[1..n -> Triangles] : n \in 0..MaxTriangles}

\* the units a file may be read with; "None" is the default of the argument
MeshUnits == {"None", "m", "km"}
Modules == {"mesh", "cube_mesh"}

\* stl_mesh.vectors.reshape([stl_mesh.vectors.size // 3, 3])
reshape_rows(vectors) ==
    [k \in 1..(3 * Len(vectors)) |-> vectors[((k - 1) \div 3) + 1][((k - 1) % 3) + 1]]

\* order of the rows of np.unique(axis=0)
LexLess(a, b) ==
    \/ a[1] < b[1]
    \/ a[1] = b[1] /\ a[2] < b[2]
    \/ a[1] = b[1] /\ a[2] = b[2] /\ a[3] < b[3]

\* np.unique(rows, axis=0, return_inverse=True): the sorted distinct rows
\* and, for every row, its (0-based) position among them
unique(rows) ==
    LET distinct == {rows[k] : k \in 1..Len(rows)}
        rank(p) == Cardinality({q \in distinct : LexLess(q, p)})
    IN  [vertices |-> [k \in 1..Cardinality(distinct) |->
                          CHOOSE p \in distinct : rank(p) = k - 1],
         inverse |-> [k \in 1..Len(rows) |-> rank(rows[k])]]

\* An index is kept as the pair of its 16-bit words, hi * 2^16 + lo, so that
\* the limits of all three index types can be told apart.
Wide(n) == [hi |-> n \div 65536, lo |-> n % 65536]
Narrow(w) == w.hi * 65536 + w.lo
WideLess(a, b) == a.hi < b.hi \/ (a.hi = b.hi /\ a.lo < b.lo)

\* np.iinfo(dtype).max: 2^8 - 1, 2^16 - 1, 2^32 - 1
iinfo_max(dtype) ==
    CASE dtype = "uint8" -> [hi |-> 0, lo |-> 255]
      [] dtype = "uint16" -> [hi |-> 0, lo |-> 65535]
      [] OTHER -> [hi |-> 65535, lo |-> 65535]

\* an index type chosen by `<=`
index_dtype_inclusive(largest) ==
    IF ~WideLess(iinfo_max("uint8"), largest) THEN "uint8"
    ELSE IF ~WideLess(iinfo_max("uint16"), largest) THEN "uint16"
    ELSE IF ~WideLess(iinfo_max("uint32"), largest) THEN "uint32"
    ELSE ""
\* the loop over the index types: the first type whose maximum is above the
\* largest index, "" if there is none
index_dtype(largest) ==
    IF WideLess(largest, iinfo_max("uint8")) THEN "uint8"
    ELSE IF WideLess(largest, iinfo_max("uint16")) THEN "uint16"
    ELSE IF WideLess(largest, iinfo_max("uint32")) THEN "uint32"
    ELSE ""

SeqMax(s) == CHOOSE m \in {s[k] : k \in 1..Len(s)} : \A k \in 1..Len(s) : s[k] <= m

\* ndarray.astype(dtype) of an index: its value modulo 2^8, 2^16, 2^32
astype(w, dtype) ==
    CASE dtype = "uint8" -> [hi |-> 0, lo |-> w.lo % 256]
      [] dtype = "uint16" -> [hi |-> 0, lo |-> w.lo]
      [] OTHER -> [hi |-> w.hi % 65536, lo |-> w.lo]

\* indices_lin.reshape([indices_lin.size // 3, 3]).astype(dtype)
reshape_indices(indices_lin, dtype) ==
    [i \in 1..(Len(indices_lin) \div 3) |->
        [j \in 1..3 |-> Narrow(astype(Wide(indices_lin[3 * (i - 1) + j]), dtype))]]

MeshReturned(indices, vertices) ==
    [status |-> "returned", ok |-> TRUE, indices |-> indices, vertices |-> vertices,
     err |-> NoErr]
MeshRaised(e) ==
    [status |-> "returned", ok |-> FALSE, indices |-> <<>>, vertices |-> <<>>, err |-> e]

\* the local variable scaling: bound only inside `if unit is not None`
scaling(mesh_unit) ==
    IF mesh_unit # "None"
    THEN [bound |-> TRUE, value |-> to_base_units(1, mesh_unit)]
    ELSE [bound |-> FALSE, value |-> 0]

scaled(vertices, factor) == [k \in 1..Len(vertices) |-> VecScale(factor, vertices[k])]

\* lines 118-120: the model is too large for every index type
TooLarge == Exc("ValueError", "too_large", "", NoPath)

get_mesh_from_stl(module, vectors, mesh_unit) ==
    LET rows == reshape_rows(vectors)
        uniq == unique(rows)
    IN  IF Len(uniq.inverse) = 0
        THEN MeshRaised(Exc("ValueError", "zero_size_reduction", "", NoPath))
        ELSE IF index_dtype(Wide(SeqMax(uniq.inverse))) = ""
        THEN MeshRaised(TooLarge)
        ELSE LET indices ==
                     reshape_indices(uniq.inverse, index_dtype(Wide(SeqMax(uniq.inverse))))
             IN  IF mesh_unit # "None"
                 THEN MeshReturned(indices, scaled(uniq.vertices, scaling(mesh_unit).value))
                 ELSE IF module = "mesh"
                 THEN MeshReturned(indices, uniq.vertices)
                 ELSE IF scaling(mesh_unit).bound
                 THEN MeshReturned(indices, scaled(uniq.vertices, scaling(mesh_unit).value))
                 ELSE MeshRaised(Exc("UnboundLocalError", "scaling", "", NoPath))

InitMesh ==
    /\ stl_vectors \in StlMeshes
    /\ unit \in MeshUnits
    /\ mesh_result = [m \in Modules |-> NoCall]
    /\ ResolverIdle /\ CliIdle /\ StlIdle /\ LaterIdle

\* the file is read with the function of one of the two modules
ReadMesh(module) ==
    /\ mesh_result[module] = NoCall
    /\ mesh_result' = [mesh_result EXCEPT ![module] = get_mesh_from_stl(module, stl_vectors, unit)]
    /\ UNCHANGED <<stl_vectors, unit, resolver_vars, cli_vars, stl_vars, later_vars>>

NextMesh == \E module \in Modules : ReadMesh(module)
SpecMesh == InitMesh /\ [][NextMesh]_vars

(***************************************************************************)
(* write_stl_file (formats/stl_writer.py)                                  *)
(***************************************************************************)
\* most frames of a transformation mapping handed to the writer
MaxFrames == 3

FrameNames == <<"instrument/manipulator", "sample", "instrument/detector", "instrument/analyser">>

\* a quarter turn about z
QuarterTurn == << <<0, -1, 0, 0>>, <<1, 0, 0, 0>>, <<0, 0, 1, 0>>, <<0, 0, 0, 1>> >>

\* the value of a frame: one matrix, or the chain of a store_intermediate call
FrameValues ==
    {[is_chain |-> FALSE, matrix |-> Identity4, chain |-> <<>>],
     [is_chain |-> FALSE, matrix |-> QuarterTurn, chain |-> <<>>],
     [is_chain |-> TRUE, matrix |-> Identity4,
      chain |-> <<[key |-> RecordEntry(1), val |-> QuarterTurn]>>]}

\* side lengths of a cube, in units of the default of --size
CubeSizes == {2, 4}

WriterInputs ==
    {[status |-> "input", output |-> "experiment.stl", size |-> s, shape |-> sh,
      transformation_matrices |->
          [i \in 1..Len(values) |-> [key |-> FrameNames[i], val |-> values[i]]]] :
        s \in CubeSizes, sh \in {"cone", "cube"},
        values \in UNION {[1..n -> FrameValues] : n \in 0..MaxFrames}}

\* how a call of write_stl_file ended: its exception, the cubes
\* create_cube_mesh had built by then, and the file it wrote
StlOutcome(e, cubes_built, file) ==
    [status |-> IF e = NoErr THEN "returned" ELSE "raised", err |-> e,
     cubes_built |-> cubes_built, file_written |-> file # <<>>, file |-> file]

\* cube.transform(transformation_matrix) of numpy-stl reads the shape of
\* the matrix; a dict has none
transform(cube, value) ==
    IF value.is_chain
    THEN [ok |-> FALSE, cube |-> cube, err |-> Exc("AttributeError", "shape", "", NoPath)]
    ELSE [ok |-> TRUE, cube |-> [cube EXCEPT !.matrix = matmul(value.matrix, @)], err |-> NoErr]

\* create_cube_mesh(scale): the cube at the origin, one triangle per row of
\* the indices of create_cube_arrays
create_cube_mesh(scale) ==
    [shape |-> "cube", triangles |-> 12, scale |-> scale, matrix |-> Identity4]

InitStl ==
    /\ cli_input \in WriterInputs
    /\ stl_pc = "start"
    /\ stl_frame = 1
    /\ scene = <<>>
    /\ stl_result = NoCall
    /\ ResolverIdle /\ CliIdle /\ MeshIdle /\ LaterIdle

\* lines 67-70: next(iter(...)) of an empty mapping, and the test of the
\* first value
first_value_check(values) ==
    IF Len(values) = 0 THEN Exc("StopIteration", "", "", NoPath)
    ELSE IF values[1].val.is_chain
    THEN Exc("NotImplementedError", "intermediate_matrices", "", NoPath)
    ELSE NoErr

\* line 67: the value of the first frame decides whether the mapping holds chains
write_stl_file ==
    /\ stl_pc = "start"
    /\ LET e == first_value_check(cli_input.transformation_matrices)
       IN  IF e # NoErr
           THEN /\ stl_result' = StlOutcome(e, 0, <<>>)
                /\ stl_pc' = "done"
           ELSE /\ stl_pc' = "cubes"
                /\ UNCHANGED stl_result
    /\ UNCHANGED <<cli_input, stl_frame, scene, resolver_vars, cli_vars, mesh_vars, later_vars>>

\* lines 47-54: one pass of the loop of cube_meshs_from
cube_meshs_from ==
    /\ stl_pc = "cubes"
    /\ stl_frame <= Len(cli_input.transformation_matrices)
    /\ LET cube == create_cube_mesh(cli_input.size \div 2)
           moved == transform(cube, cli_input.transformation_matrices[stl_frame].val)
       IN  IF moved.ok
           THEN /\ scene' = Append(scene, moved.cube)
                /\ stl_frame' = stl_frame + 1
                /\ UNCHANGED <<stl_pc, stl_result>>
           ELSE /\ stl_result' = StlOutcome(moved.err, Len(scene) + 1, <<>>)
                /\ stl_pc' = "done"
                /\ UNCHANGED <<scene, stl_frame>>
    /\ UNCHANGED <<cli_input, resolver_vars, cli_vars, mesh_vars, later_vars>>

\* lines 56 and 73: the scene is returned and saved
save ==
    /\ stl_pc = "cubes"
    /\ stl_frame > Len(cli_input.transformation_matrices)
    /\ stl_result' = StlOutcome(NoErr, Len(scene), scene)
    /\ stl_pc' = "done"
    /\ UNCHANGED <<cli_input, stl_frame, scene, resolver_vars, cli_vars, mesh_vars, later_vars>>

NextStl ==
    \/ write_stl_file
    \/ cube_meshs_from
    \/ save
SpecStl == InitStl /\ [][NextStl]_vars

(***************************************************************************)
(* formats/gltf_writer.py: the buffer layout.  An index array is kept as   *)
(* its dtype and its number of elements, a vertex array as its number of   *)
(* float32 points; their blobs are kept as their lengths in bytes.         *)
(***************************************************************************)
MaxGeometries == 2

itemsize(dtype) == CASE dtype = "uint8" -> 1 [] dtype = "uint16" -> 2 [] OTHER -> 4

\* get_binary_blobs: len(indices.tobytes()), len(vertices.flatten().tobytes())
get_binary_blobs(indices, vertices) ==
    [indices_bin |-> indices.size * itemsize(indices.dtype),
     vertices_bin |-> vertices.count * 3 * 4]

\* line 107: fill_offset = offset + len(indices_bin) % len(vertices_bin)
fill_offset(offset, indices_bin, vertices_bin) == offset + (indices_bin % vertices_bin)

\* a vertex view that starts where the index blob ends
vertex_view_offset_unpadded(offset, indices_bin, fill) == offset + indices_bin
\* line 113: byteOffset of the vertex view
vertex_view_offset(offset, indices_bin, fill) == offset + indices_bin + fill

\* line 120: indices_bin + fill_offset_bin + vertices_bin; the binary data
\* is kept as its pieces, each with the geometry it belongs to and its length
chunks(i, indices_bin, fill, vertices_bin) ==
    <<[blob |-> "indices", geometry |-> i, length |-> indices_bin],
      [blob |-> "fill", geometry |-> i, length |-> fill],
      [blob |-> "vertices", geometry |-> i, length |-> vertices_bin]>>

\* the loop of set_data from geometry i on, with the running offset and the
\* accessors, bufferViews and binary data appended so far
RECURSIVE set_data_loop(_, _, _, _, _, _, _)
set_data_loop(indices_list, vertices_list, i, offset, accessors, bufferViews, binary_data) ==
    IF i > Len(indices_list)
    THEN [accessors |-> accessors, bufferViews |-> bufferViews, byteLength |-> offset,
          binary_data |-> binary_data]
    ELSE LET blobs == get_binary_blobs(indices_list[i], vertices_list[i])
             fill == fill_offset(offset, blobs.indices_bin, blobs.vertices_bin)
         IN  set_data_loop(indices_list, vertices_list, i + 1,
                 offset + blobs.indices_bin + blobs.vertices_bin + fill,
                 accessors \o
                     <<[bufferView |-> 2 * (i - 1), componentType |-> indices_list[i].dtype,
                        count |-> indices_list[i].size, type |-> "SCALAR"],
                       [bufferView |-> 2 * (i - 1) + 1, componentType |-> "float32",
                        count |-> vertices_list[i].count, type |-> "VEC3"]>>,
                 bufferViews \o
                     <<[byteOffset |-> offset, byteLength |-> blobs.indices_bin,
                        target |-> "ELEMENT_ARRAY_BUFFER"],
                       [byteOffset |-> vertex_view_offset(offset, blobs.indices_bin, fill),
                        byteLength |-> blobs.vertices_bin,
                        target |-> "ARRAY_BUFFER"]>>,
                 binary_data \o chunks(i, blobs.indices_bin, fill, blobs.vertices_bin))

\* lines 56-57
ListMismatch == Exc("ValueError", "list_length_mismatch", "", NoPath)

\* set_data: the accessors, bufferViews and buffer length written into the
\* gltf object, or the ValueError
set_data(indices_list, vertices_list) ==
    IF Len(indices_list) # Len(vertices_list)
    THEN [ok |-> FALSE, err |-> ListMismatch, accessors |-> <<>>, bufferViews |-> <<>>,
          byteLength |-> 0, binary_data |-> <<>>]
    ELSE [ok |-> TRUE, err |-> NoErr] @@
         set_data_loop(indices_list, vertices_list, 1, 0, <<>>, <<>>, <<>>)

(***************************************************************************)
(* write_gltf_file (formats/gltf_writer.py)                                *)
(***************************************************************************)
\* most frames of a mapping handed to write_gltf_file
MaxGltfFrames == 2

\* frame names as the resolver registers them
GltfFrameNames ==
    <<Path(FALSE, <<"instrument", "manipulator">>), Path(FALSE, <<"sample">>),
      Path(FALSE, <<"instrument", "detector">>)>>

\* a shift along x by one, as the left-handed translate builds it
ShiftX == << <<1, 0, 0, 1>>, <<0, 1, 0, 0>>, <<0, 0, 1, 0>>, <<0, 0, 0, 1>> >>

\* the value of a frame: one matrix, or the chain of a store_intermediate call
GltfFrameValues ==
    {[is_chain |-> FALSE, matrix |-> QuarterTurn, chain |-> <<>>],
     [is_chain |-> FALSE, matrix |-> ShiftX, chain |-> <<>>],
     [is_chain |-> TRUE, matrix |-> Identity4,
      chain |-> <<[key |-> RecordEntry(1), val |-> QuarterTurn]>>],
     [is_chain |-> TRUE, matrix |-> Identity4,
      chain |-> <<[key |-> RecordEntry(1), val |-> QuarterTurn],
                  [key |-> RecordEntry(2), val |-> matmul(QuarterTurn, ShiftX)]>>]}

\* the entry of a frame in the placement file: the keys it has, and their values
ConfigEntry(keys, file, mesh_unit, x, rot_z) ==
    [keys |-> keys, file |-> file, unit |-> mesh_unit, x |-> x, y |-> 0, z |-> 0,
     rot_x |-> 0, rot_y |-> 0, rot_z |-> rot_z]
ConfigEntries ==
    {ConfigEntry({"file"}, "a.stl", "None", 0, 0),
     ConfigEntry({"file"}, "empty.stl", "None", 0, 0),
     ConfigEntry({"x"}, "", "None", 1, 0),
     ConfigEntry({"file", "unit", "rot_z"}, "a.stl", "km", 0, 90)}
\* config_dict.get(key, default)
ConfigGet(entry, key, default) == IF key \in entry.keys THEN entry[key] ELSE default

\* config_dict: None, or entries for some of the first two frame names
ConfigDicts ==
    {[given |-> FALSE, entries |-> <<>>]} \cup
    {[given |-> TRUE, entries |-> f] :
        f \in UNION {[D -> ConfigEntries] : D \in SUBSET {GltfFrameNames[1], GltfFrameNames[2]}}}

\* mesh.Mesh.from_file(filename).vectors of the files of the placement entries
StlFile(filename) ==
    IF filename = "a.stl" THEN << <<<<-1, 0, 0>>, <<0, 0, 0>>, <<0, 1, 0>>>> >> ELSE <<>>

\* the mapping of frames with the given values
GltfMapping(values) ==
    [i \in 1..Len(values) |-> [key |-> GltfFrameNames[i], val |-> values[i]]]

\* the writer inputs; mapping_at_call keeps the mapping as the caller
\* handed it over
GltfInputs ==
    {[status |-> "input", output |-> "experiment.glb", size |-> 2, show_beam |-> b,
      shape |-> sh, config_dict |-> c,
      transformation_matrices |-> GltfMapping(values),
      mapping_at_call |-> GltfMapping(values)] :
        b \in BOOLEAN, sh \in {"cone", "cube", "ball"}, c \in ConfigDicts,
        values \in UNION {[1..n -> GltfFrameValues] : n \in 0..MaxGltfFrames}}

\* lines 286-287: config_dict None becomes {}
config_of(input) == IF input.config_dict.given THEN input.config_dict.entries ELSE <<>>

\* text.removeprefix(prefix) on paths, for a prefix "/entry/" or
\* "/transformations/" (absolute, one segment, trailing slash)
remove_group_prefix(p, segment) ==
    IF p.abs /\ Len(p.segs) >= 2 /\ p.segs[1] = segment
    THEN Path(FALSE, Tail(p.segs))
    ELSE p
\* text.removeprefix(entry_name) for a frame name; what is left starts with
\* "/" unless it is empty (segments of the model never share a prefix)
remove_entry_name(p, name) ==
    IF ~p.abs /\ Len(p.segs) >= Len(name.segs) /\ Len(name.segs) > 0
       /\ SubSeq(p.segs, 1, Len(name.segs)) = name.segs
    THEN Path(Len(p.segs) > Len(name.segs), SubSeq(p.segs, Len(name.segs) + 1, Len(p.segs)))
    ELSE p
\* text.replace("/transformations", "")
replace_transformations(p) ==
    LET keep(k) == p.segs[k] # "transformations" \/ (k = 1 /\ ~p.abs)
        kept == {k \in 1..Len(p.segs) : keep(k)}
        nth(n) == CHOOSE k \in kept : Cardinality({q \in kept : q < k}) = n - 1
    IN  Path(p.abs, [n \in 1..Cardinality(kept) |-> p.segs[nth(n)]])

clean_name(name, entry_name) ==
    replace_transformations(
        remove_group_prefix(
            remove_entry_name(remove_group_prefix(name, "entry"), entry_name),
            "transformations"))

\* np.deg2rad, in quarter turns
deg2rad(degrees) == to_base_units(degrees, "deg")

\* apply_stl_transformations: translate and rotate are called with their
\* defaults (offset None, left_handed False)
apply_stl_transformations(entry, matrix) ==
    LET translations == <<ConfigGet(entry, "x", 0), ConfigGet(entry, "y", 0),
                          ConfigGet(entry, "z", 0)>>
        rots == <<[key |-> "rot_x", axis |-> <<1, 0, 0>>],
                  [key |-> "rot_y", axis |-> <<0, 1, 0>>],
                  [key |-> "rot_z", axis |-> <<0, 0, 1>>]>>
        turn(k, rot_matrix) ==
            IF rots[k].key \in entry.keys
            THEN matmul(rotate(deg2rad(entry[rots[k].key]), rots[k].axis, Zeros3, FALSE).m,
                        rot_matrix)
            ELSE rot_matrix
        rot_matrix == turn(3, turn(2, turn(1, Identity4)))
        apply_rotation == \E k \in 1..3 : rots[k].key \in entry.keys
        shift == translate(translations, Zeros3, FALSE)
    IN  IF ~shift.ok THEN shift
        ELSE LET shifted == matmul(matrix, shift.m)
             IN  Built(IF apply_rotation THEN matmul(shifted, rot_matrix) ELSE shifted)

StlShift == Path(FALSE, <<"stl_shift">>)

\* the value add_stl_shift returns when apply_stl_transformations ended as `shift`
stl_shifted(value, shift) ==
    IF ~shift.ok THEN [ok |-> FALSE, err |-> shift.err, val |-> value]
    ELSE IF value.is_chain
    THEN [ok |-> TRUE, err |-> NoErr,
          val |-> [value EXCEPT !.chain = DictSet(@, StlShift, shift.m)]]
    ELSE [ok |-> TRUE, err |-> NoErr, val |-> [value EXCEPT !.matrix = shift.m]]

\* add_stl_shift(name, matrix): the value after the call, or the exception
add_stl_shift(config, name, value) ==
    IF name \notin DOMAIN config
    THEN [ok |-> TRUE, err |-> NoErr, val |-> value]
    ELSE stl_shifted(value,
             apply_stl_transformations(config[name],
                 IF value.is_chain THEN value.chain[Len(value.chain)].val
                 ELSE value.matrix))

\* list(matrix.T.flat): the elements column by column
T_flat(matrix) == [k \in 1..16 |-> matrix[((k - 1) % 4) + 1][((k - 1) \div 4) + 1]]

\* pygltflib.Node(mesh, matrix, name, children); the name of a child is
\* f"{j}-{clean_name(...)}", kept as j and the cleaned path; a frame's own
\* node has no number
Node(mesh, matrix, j, name, children) ==
    [mesh |-> mesh, matrix |-> matrix, name |-> [j |-> j, text |-> name],
     children |-> children]

\* append_mesh(mode)
append_mesh(meshes, indices_list, mode) ==
    Append(meshes, [POSITION |-> 2 * Len(indices_list) - 1,
                    indices |-> 2 * Len(indices_list) - 2, mode |-> mode])

\* create_cube_arrays / create_cone_arrays: 12 and 10 triangles of uint8
\* indices, 8 and 11 vertices
shape_arrays(shape) ==
    IF shape = "cube"
    THEN [indices |-> [dtype |-> "uint8", size |-> 36], vertices |-> [count |-> 8]]
    ELSE [indices |-> [dtype |-> "uint8", size |-> 30], vertices |-> [count |-> 11]]

\* the arrays get_mesh_from_stl returned
stl_arrays(mesh) ==
    [indices |-> [dtype |-> index_dtype(Wide(Len(mesh.vertices) - 1)),
                  size |-> 3 * Len(mesh.indices)],
     vertices |-> [count |-> Len(mesh.vertices)]]

\* the loop of create_meshs from frame i on; shape_index -1 is None
RECURSIVE create_meshs(_, _, _)
create_meshs(input, i, st) ==
    IF i > Len(input.transformation_matrices)
    THEN [ok |-> TRUE, err |-> NoErr, st |-> st]
    ELSE LET name == input.transformation_matrices[i].key
             config == config_of(input)
         IN  IF name \in DOMAIN config /\ "file" \in config[name].keys
             THEN LET mesh == get_mesh_from_stl("mesh", StlFile(config[name].file),
                                                ConfigGet(config[name], "unit", "None"))
                      arrays == stl_arrays(mesh)
                      indices_list == Append(st.indices, arrays.indices)
                  IN  IF ~mesh.ok THEN [ok |-> FALSE, err |-> mesh.err, st |-> st]
                      ELSE create_meshs(input, i + 1,
                               [st EXCEPT !.indices = indices_list,
                                          !.vertices = Append(@, arrays.vertices),
                                          !.mesh_indices = (name :> Len(indices_list) - 1) @@ @,
                                          !.meshes = append_mesh(@, indices_list, 4)])
             ELSE IF st.shape_index = -1
             THEN LET arrays == shape_arrays(input.shape)
                      indices_list == Append(st.indices, arrays.indices)
                  IN  create_meshs(input, i + 1,
                          [st EXCEPT !.indices = indices_list,
                                     !.vertices = Append(@, arrays.vertices),
                                     !.shape_index = Len(indices_list) - 1,
                                     !.mesh_indices = (name :> Len(indices_list) - 1) @@ @,
                                     !.meshes = append_mesh(@, indices_list, 4)])
             ELSE create_meshs(input, i + 1,
                      [st EXCEPT !.mesh_indices = (name :> st.shape_index) @@ @])

\* the child nodes of a chain, numbered from 0
child_nodes(chain, name, mesh) ==
    [j \in 1..Len(chain) |->
        Node(mesh, T_flat(chain[j].val), j - 1, clean_name(chain[j].key, name), <<>>)]

\* one pass of the loop of append_nodes: the nodes of a frame, given what
\* add_stl_shift made of its value
frame_nodes(name, value, mesh, first) ==
    IF value.is_chain
    THEN child_nodes(value.chain, name, mesh) \o
         <<Node(mesh, <<>>, -1, name, [j \in 1..Len(value.chain) |-> first + j - 1])>>
    ELSE <<Node(mesh, T_flat(value.matrix), -1, name, <<>>)>>

\* the state of append_nodes after the pass for frame i; add_stl_shift
\* writes into the dict of a chain and returns a new array for a matrix
nodes_appended(st, i, shifted, nodes) ==
    [transformation_matrices |->
         [st.transformation_matrices EXCEPT
             ![i].val = IF shifted.val.is_chain THEN shifted.val ELSE @],
     nodes |-> st.nodes \o nodes,
     scene_nodes |-> Append(st.scene_nodes, Len(st.nodes) + Len(nodes) - 1)]

\* how the pass for frame i ends: an exception of add_stl_shift, the
\* AttributeError of `.T` on an empty chain, or the nodes
pass_outcome(st, i, shifted, mesh) ==
    IF ~shifted.ok THEN [ok |-> FALSE, err |-> shifted.err, st |-> st]
    ELSE IF shifted.val.is_chain /\ Len(shifted.val.chain) = 0
    THEN [ok |-> FALSE, err |-> Exc("AttributeError", "T", "", NoPath), st |-> st]
    ELSE [ok |-> TRUE, err |-> NoErr,
          st |-> nodes_appended(st, i, shifted,
                     frame_nodes(st.transformation_matrices[i].key, shifted.val, mesh,
                                 Len(st.nodes)))]

\* the loop of append_nodes, the pass for frame i having ended as `pass`
RECURSIVE append_nodes_from(_, _, _, _)
\* the loop of append_nodes from frame i on: the nodes, the scene's node
\* list and the mapping add_stl_shift has written to
append_nodes(config, indices_of, i, st) ==
    IF i > Len(st.transformation_matrices)
    THEN [ok |-> TRUE, err |-> NoErr, st |-> st]
    ELSE append_nodes_from(config, indices_of, i,
             pass_outcome(st, i,
                 add_stl_shift(config, st.transformation_matrices[i].key,
                               st.transformation_matrices[i].val),
                 indices_of[st.transformation_matrices[i].key]))
append_nodes_from(config, indices_of, i, pass) ==
    IF pass.ok THEN append_nodes(config, indices_of, i + 1, pass.st) ELSE pass

\* lines 289-297: the GLTF2 object with one empty scene
NewGltf ==
    [status |-> "object", nodes |-> <<>>, scene_nodes |-> <<>>, meshes |-> <<>>,
     accessors |-> <<>>, bufferViews |-> <<>>, byteLength |-> 0, has_data |-> FALSE]

\* an outcome that leaves the object on disk whatever happened
GltfOutcome_saving_always(e, object) ==
    [status |-> IF e = NoErr THEN "returned" ELSE "raised", err |-> e,
     file_written |-> TRUE, file |-> object]
\* how a call of write_gltf_file ended: its exception, or the object that
\* gltf.save wrote to cli_input.output
GltfOutcome(e, object) ==
    [status |-> IF e = NoErr THEN "returned" ELSE "raised", err |-> e,
     file_written |-> e = NoErr, file |-> IF e = NoErr THEN object ELSE NoCall]

InitGltf ==
    /\ gltf_input \in GltfInputs
    /\ gltf_pc = "create_meshs"
    /\ gltf = NewGltf
    /\ gltf_indices = <<>>
    /\ gltf_vertices = <<>>
    /\ mesh_indices = <<>>
    /\ gltf_result = NoCall
    /\ ResolverIdle /\ CliIdle /\ MeshIdle /\ StlIdle /\ FnIdle

\* line 297: mesh_indices = create_meshs()
GltfCreateMeshs ==
    /\ gltf_pc = "create_meshs"
    /\ LET r == create_meshs(gltf_input, 1,
                    [indices |-> <<>>, vertices |-> <<>>, meshes |-> <<>>,
                     mesh_indices |-> <<>>, shape_index |-> -1])
       IN  /\ gltf_indices' = r.st.indices
           /\ gltf_vertices' = r.st.vertices
           /\ gltf' = [gltf EXCEPT !.meshes = r.st.meshes]
           /\ IF r.ok
              THEN /\ mesh_indices' = r.st.mesh_indices
                   /\ gltf_pc' = "append_nodes"
                   /\ UNCHANGED gltf_result
              ELSE /\ gltf_result' = GltfOutcome(r.err, gltf')
                   /\ gltf_pc' = "done"
                   /\ UNCHANGED mesh_indices
    /\ UNCHANGED <<gltf_input, resolver_vars, cli_vars, mesh_vars, stl_vars, fn_vars>>

\* line 299: append_nodes(mesh_indices)
GltfAppendNodes ==
    /\ gltf_pc = "append_nodes"
    /\ LET r == append_nodes(config_of(gltf_input), mesh_indices, 1,
                    [transformation_matrices |-> gltf_input.transformation_matrices,
                     nodes |-> gltf.nodes, scene_nodes |-> gltf.scene_nodes])
       IN  /\ gltf_input' =
                  [gltf_input EXCEPT !.transformation_matrices = r.st.transformation_matrices]
           /\ gltf' = [gltf EXCEPT !.nodes = r.st.nodes, !.scene_nodes = r.st.scene_nodes]
           /\ IF r.ok
              THEN /\ gltf_pc' = "beam"
                   /\ UNCHANGED gltf_result
              ELSE /\ gltf_result' = GltfOutcome(r.err, gltf')
                   /\ gltf_pc' = "done"
    /\ UNCHANGED <<gltf_indices, gltf_vertices, mesh_indices,
                   resolver_vars, cli_vars, mesh_vars, stl_vars, fn_vars>>

\* lines 300-312: the beam; cli_input.beam_blender is read from the dataclass
GltfAppendBeam ==
    /\ gltf_pc = "beam"
    /\ IF ~gltf_input.show_beam
       THEN /\ gltf_pc' = "set_data"
            /\ UNCHANGED <<gltf, gltf_indices, gltf_vertices, gltf_result>>
       ELSE IF "beam_blender" \notin WriterInputFields
       THEN /\ gltf_result' =
                  GltfOutcome(Exc("AttributeError", "", "beam_blender", NoPath), gltf)
            /\ gltf_pc' = "done"
            /\ UNCHANGED <<gltf, gltf_indices, gltf_vertices>>
       ELSE /\ gltf_vertices' = Append(gltf_vertices, [count |-> 2])
            /\ gltf_indices' = Append(gltf_indices, [dtype |-> "uint8", size |-> 2])
            /\ gltf' = [gltf EXCEPT
                            !.nodes = Append(@, Node(Len(gltf_indices') - 1, <<>>, -1,
                                                     Path(FALSE, <<"beam">>), <<>>)),
                            !.scene_nodes = Append(@, Len(gltf.nodes)),
                            !.meshes = append_mesh(@, gltf_indices', 1)]
            /\ gltf_pc' = "set_data"
            /\ UNCHANGED gltf_result
    /\ UNCHANGED <<gltf_input, mesh_indices,
                   resolver_vars, cli_vars, mesh_vars, stl_vars, fn_vars>>

\* line 314: set_data(gltf, indices, vertices)
GltfSetData ==
    /\ gltf_pc = "set_data"
    /\ LET r == set_data(gltf_indices, gltf_vertices)
       IN  IF r.ok
           THEN /\ gltf' = [gltf EXCEPT !.accessors = r.accessors,
                                        !.bufferViews = r.bufferViews,
                                        !.byteLength = r.byteLength,
                                        !.has_data = TRUE]
                /\ gltf_pc' = "save"
                /\ UNCHANGED gltf_result
           ELSE /\ gltf_result' = GltfOutcome(r.err, gltf)
                /\ gltf_pc' = "done"
                /\ UNCHANGED gltf
    /\ UNCHANGED <<gltf_input, gltf_indices, gltf_vertices, mesh_indices,
                   resolver_vars, cli_vars, mesh_vars, stl_vars, fn_vars>>

\* line 316: gltf.save(cli_input.output)
GltfSave ==
    /\ gltf_pc = "save"
    /\ gltf_result' = GltfOutcome(NoErr, gltf)
    /\ gltf_pc' = "done"
    /\ UNCHANGED <<gltf_input, gltf, gltf_indices, gltf_vertices, mesh_indices,
                   resolver_vars, cli_vars, mesh_vars, stl_vars, fn_vars>>

NextGltf ==
    \/ GltfCreateMeshs
    \/ GltfAppendNodes
    \/ GltfAppendBeam
    \/ GltfSetData
    \/ GltfSave
SpecGltf == InitGltf /\ [][NextGltf]_vars

\* a conversion run: the command, or one of the two writers it hands over to
InitConversion == InitCli \/ InitStl \/ InitGltf
NextConversion == NextCli \/ NextStl \/ NextGltf
SpecConversion == InitConversion /\ [][NextConversion]_vars

(***************************************************************************)
(* Calls of the pure functions (matrix.py and the helpers of the other     *)
(* modules), one call per behaviour                                        *)
(***************************************************************************)
\* an optional argument: given, or left at None
Given(v) == [given |-> TRUE, v |-> v]
NotGiven == [given |-> FALSE, v |-> Zeros3]

\* components of the vectors of the model
Coordinates == {-1, 0, 2}
Vectors == {<<x, y, z>> : x \in Coordinates, y \in Coordinates, z \in Coordinates}
Offsets == {NotGiven} \cup {Given(v) : v \in {<<0, 0, 0>>, <<1, 2, 3>>, <<-2, 0, 5>>}}
\* rotation axes: along a coordinate axis, of any length
Axes == {<<1, 0, 0>>, <<0, 1, 0>>, <<0, 0, 1>>, <<0, 0, -1>>, <<0, 2, 0>>}
\* angles in quarter turns
Angles == -4..4

TranslateCalls ==
    [fn : {"translate"}, translation : Vectors, offset : Offsets, left_handed : BOOLEAN]
RotateCalls ==
    [fn : {"rotate"}, angle : Angles, axis : Axes, offset : Offsets, left_handed : BOOLEAN]

\* translate(translation, offset, left_handed): `if offset is not None`
translate_call(c) ==
    translate(c.translation, IF c.offset.given THEN c.offset.v ELSE Zeros3, c.left_handed)
\* rotate(angle, axis, offset, left_handed): `if offset is None`
rotate_call(c) ==
    rotate(c.angle, c.axis, IF c.offset.given THEN c.offset.v ELSE Zeros3, c.left_handed)

InitTranslate == call \in TranslateCalls /\ result = NoCall
InitRotate == call \in RotateCalls /\ result = NoCall

CallTranslate ==
    /\ call.fn = "translate"
    /\ result = NoCall
    /\ result' = translate_call(call)
    /\ UNCHANGED <<call, resolver_vars, cli_vars, mesh_vars, stl_vars, gltf_vars>>

CallRotate ==
    /\ call.fn = "rotate"
    /\ result = NoCall
    /\ result' = rotate_call(call)
    /\ UNCHANGED <<call, resolver_vars, cli_vars, mesh_vars, stl_vars, gltf_vars>>

\* most datasets of a container handed to visititems
MaxDatasets == 3

\* names of datasets h5py may visit: depends_on links of components, one
\* inside the process sub-tree, one of a group whose name only starts with
\* "process", and a dataset that is no link
DatasetNames ==
    {ManipulatorLink, SampleLink, ProcessLink,
     Path(FALSE, <<"entry", "process", "depends_on">>),
     Path(FALSE, <<"entry", "process_steps", "depends_on">>),
     Path(FALSE, <<"entry", "sample", "name">>)}

\* the datasets of a container in visiting order, no name twice
DatasetLists ==
    {ds \in UNION {[1..n -> DatasetNames] : n \in 0..MaxDatasets} :
        \A i \in 1..Len(ds) : \A j \in 1..Len(ds) : ds[i] = ds[j] => i = j}

VisitCalls ==
    {[fn |-> "visititems",
      datasets |-> [i \in 1..Len(ds) |-> [name |-> ds[i], value |-> RecordEntry(i)]],
      include_process |-> ip, minor_lt_9 |-> old] :
        ds \in DatasetLists, ip \in BOOLEAN, old \in BOOLEAN}

InitVisit == call \in VisitCalls /\ result = NoCall

\* transformation_groups after h5file.visititems(get_transformation_group_names)
CallVisititems ==
    /\ call.fn = "visititems"
    /\ result = NoCall
    /\ result' = [status |-> "returned",
                  groups |-> visititems(call.datasets, call.include_process,
                                        call.minor_lt_9, <<>>)]
    /\ UNCHANGED <<call, resolver_vars, cli_vars, mesh_vars, stl_vars, gltf_vars>>

\* largest indices around the limits of the three index types
LargestIndices ==
    {[hi |-> h, lo |-> l] : h \in {0, 1, 65534, 65535, 65536},
                            l \in {0, 1, 254, 255, 256, 65534, 65535}}
IndexCalls == [fn : {"index_dtype"}, largest : LargestIndices]
InitIndex == call \in IndexCalls /\ result = NoCall

\* lines 113-122 for an index array with the given maximum: the type
\* chosen and the maximum as the cast stores it, or the ValueError
CallIndexDtype ==
    /\ call.fn = "index_dtype"
    /\ result = NoCall
    /\ LET dtype == index_dtype(call.largest)
       IN  result' = IF dtype = ""
                     THEN [status |-> "raised", err |-> TooLarge, dtype |-> "",
                           stored |-> call.largest]
                     ELSE [status |-> "returned", err |-> NoErr, dtype |-> dtype,
                           stored |-> astype(call.largest, dtype)]
    /\ UNCHANGED <<call, resolver_vars, cli_vars, mesh_vars, stl_vars, gltf_vars>>

\* index arrays: the beam's line, one and two triangles, the cube's twelve
IndexArrays == [dtype : {"uint8", "uint16", "uint32"}, size : {2, 3, 6, 36}]
\* vertex arrays: the beam's two points, a triangle, the cube's corners
VertexArrays == [count : {2, 3, 8}]
SeqsUpTo(S, n) == UNION {[1..k -> S] : k \in 0..n}
SetDataCalls ==
    [fn : {"set_data"}, indices_list : SeqsUpTo(IndexArrays, MaxGeometries),
     vertices_list : SeqsUpTo(VertexArrays, MaxGeometries)]
InitSetData == call \in SetDataCalls /\ result = NoCall

CallSetData ==
    /\ call.fn = "set_data"
    /\ result = NoCall
    /\ LET r == set_data(call.indices_list, call.vertices_list)
       IN  result' = [status |-> IF r.ok THEN "returned" ELSE "raised", err |-> r.err,
                      accessors |-> r.accessors, bufferViews |-> r.bufferViews,
                      byteLength |-> r.byteLength, binary_data |-> r.binary_data]
    /\ UNCHANGED <<call, resolver_vars, cli_vars, mesh_vars, stl_vars, gltf_vars>>

\* the forms a depends_on value may have: a sibling name, a path from the
\* root with and without the leading "/", a path of several segments that
\* does not start at the root
References ==
    {Path(FALSE, <<"ax1">>), RecordEntry(1), Path(FALSE, RecordEntry(1).segs),
     Path(FALSE, <<"transformations", "ax1">>)}
\* a record's depends_on attribute, read at the record's entry, or a frame's
\* depends_on dataset, read at the dataset's name
LookupCalls ==
    [fn : {"lookup"}, level : {"record"}, at : {RecordEntry(2), Path(FALSE, RecordEntry(2).segs)},
     depends_on : References, minor_lt_9 : BOOLEAN]
    \cup [fn : {"lookup"}, level : {"frame"}, at : {ManipulatorLink, SampleLink},
          depends_on : References, minor_lt_9 : BOOLEAN]
InitLookup == call \in LookupCalls /\ result = NoCall

\* lines 122-147 and 165-174: the entry get_transformation_matrix is called with
CallLookup ==
    /\ call.fn = "lookup"
    /\ result = NoCall
    /\ result' = [status |-> "returned",
                  entry |-> IF call.level = "record"
                            THEN parent_entry(call.at, call.depends_on)
                            ELSE start_entry(group_name(call.at, call.minor_lt_9),
                                             call.depends_on)]
    /\ UNCHANGED <<call, resolver_vars, cli_vars, mesh_vars, stl_vars, gltf_vars>>

\* a chain ax1 <- ax2 of two well-formed records with 1-D fields of n1 and
\* n2 samples
ParametricChain(plain, n1, n2, absolute) ==
    [key \in {H5Key(RecordEntry(1)), H5Key(RecordEntry(2))} |->
        IF key = H5Key(RecordEntry(1))
        THEN ApplyVariant([plain[1] EXCEPT !.depends_on = Link(1, absolute)],
                          Variant("field_1d", "", {}, n1))
        ELSE ApplyVariant([plain[2] EXCEPT !.depends_on = Link(2, absolute)],
                          Variant("field_1d", "", {}, n2))]

\* lines 191-203: what transformation_matrices_from makes of the outcome
\* of a frame's resolution
flattened(resolution, is_chain) ==
    IF resolution.ok
    THEN flatten_value(frame_value(is_chain, resolution.chain, resolution.val))
    ELSE [ok |-> FALSE, err |-> resolution.err,
          val |-> [is_chain |-> is_chain, matrix |-> Identity4, chain |-> <<>>]]

ResolveCalls ==
    {[fn |-> "resolve", records |-> ParametricChain(plain, n1, n2, absolute),
      left_handed |-> lh] :
        plain \in [1..2 -> PlainRecords], n1 \in 0..MaxSamples, n2 \in 0..MaxSamples,
        absolute \in BOOLEAN, lh \in BOOLEAN}
InitResolve == call \in ResolveCalls /\ result = NoCall

\* lines 165-178 and 194-205 for a frame whose depends_on names ax2, without
\* and with the intermediate chain
CallResolve ==
    /\ call.fn = "resolve"
    /\ result = NoCall
    /\ LET single == get_transformation_matrix(call.records, RecordEntry(2),
                                               call.left_handed, FALSE, <<>>)
           stored == get_transformation_matrix(call.records, RecordEntry(2),
                                               call.left_handed, TRUE, new_matrix_chain(<<>>))
       IN  result' = [status |-> IF single.ok THEN "returned" ELSE "raised",
                      err |-> single.err,
                      family |-> single.val,
                      flat |-> flattened(single, FALSE),
                      flat_chain |-> flattened(stored, TRUE)]
    /\ UNCHANGED <<call, resolver_vars, cli_vars, mesh_vars, stl_vars, gltf_vars>>

\* the failure conditions of the core
FailureConditions ==
    {"missing_attribute", "missing_unit", "field_shape", "unknown_type", "list_mismatch",
     "too_large", "chain_to_flat"}
\* a container of one rotation record that differs from a plain one
OneRecord(variant) == Container(1, <<PlainRecord("rotation", ZAxis)>>, 1, variant, TRUE).records
\* the exception the code raises under a failure condition
failure(condition) ==
    CASE condition = "missing_attribute" ->
            get_transformation_matrix(OneRecord(Variant("drop_attr", "vector", {}, 0)),
                                      RecordEntry(1), FALSE, FALSE, <<>>).err
      [] condition = "missing_unit" ->
            get_transformation_matrix(OneRecord(Variant("offset", "", {"offset"}, 0)),
                                      RecordEntry(1), FALSE, FALSE, <<>>).err
      [] condition = "field_shape" ->
            get_transformation_matrix(OneRecord(Variant("field_2d", "", {}, 0)),
                                      RecordEntry(1), FALSE, FALSE, <<>>).err
      [] condition = "unknown_type" ->
            get_transformation_matrix(OneRecord(Variant("unknown_type", "", {}, 0)),
                                      RecordEntry(1), FALSE, FALSE, <<>>).err
      [] condition = "list_mismatch" ->
            set_data(<<[dtype |-> "uint8", size |-> 3]>>, <<>>).err
      [] condition = "too_large" ->
            IF index_dtype([hi |-> 65535, lo |-> 65535]) = "" THEN TooLarge ELSE NoErr
      [] OTHER ->
            first_value_check(<<[key |-> FrameNames[1],
                                 val |-> [is_chain |-> TRUE, matrix |-> Identity4,
                                          chain |-> <<[key |-> RecordEntry(1),
                                                       val |-> QuarterTurn]>>]]>>)

FailureCalls == [fn : {"failures"}, first : FailureConditions, second : FailureConditions]
InitFailures == call \in FailureCalls /\ result = NoCall

\* a caller meets two failures
CallFailing ==
    /\ call.fn = "failures"
    /\ result = NoCall
    /\ result' = [status |-> "raised", first |-> failure(call.first),
                  second |-> failure(call.second)]
    /\ UNCHANGED <<call, resolver_vars, cli_vars, mesh_vars, stl_vars, gltf_vars>>

InitFunctions ==
    /\ InitTranslate \/ InitRotate \/ InitVisit \/ InitIndex \/ InitSetData \/ InitFailures
       \/ InitLookup \/ InitResolve
    /\ ResolverIdle /\ CliIdle /\ MeshIdle /\ StlIdle /\ GltfIdle

NextFunctions ==
    \/ CallTranslate
    \/ CallRotate
    \/ CallVisititems
    \/ CallIndexDtype
    \/ CallSetData
    \/ CallFailing
    \/ CallLookup
    \/ CallResolve
SpecFunctions == InitFunctions /\ [][NextFunctions]_vars

(***************************************************************************)
(* Reference notions the claims are stated with.  They are taken from the  *)
(* container alone and use none of the resolver's definitions.             *)
(***************************************************************************)
\* a record as the data model describes it
WellFormed(rec) ==
    /\ {"depends_on", "vector", "transformation_type", "units"} \subseteq rec.attrs
    /\ rec.transformation_type \in {"rotation", "translation"}
    /\ "offset" \in rec.attrs => "offset_unit" \in rec.attrs
    /\ rec.ndim \in {0, 1}

\* a well-formed record with a scalar float64 field and no offset
Plain(rec) ==
    /\ WellFormed(rec)
    /\ rec.ndim = 0
    /\ rec.dtype = "float64"
    /\ rec.attrs \cap {"offset", "offset_unit", "offsets_units"} = {}

AllPlain == \A key \in DOMAIN h5file.records : Plain(h5file.records[key])
AllRotations ==
    \A key \in DOMAIN h5file.records : h5file.records[key].transformation_type = "rotation"

RecordAt(entry) == h5file.records[H5Key(entry)]
IsRecord(entry) == H5Key(entry) \in DOMAIN h5file.records

\* the record a depends_on value names: a path when it holds a separator,
\* a sibling of the record otherwise
RefParent(entry) ==
    LET d == RecordAt(entry).depends_on
    IN  IF d.abs \/ Len(d.segs) > 1 THEN d
        ELSE Path(entry.abs, SubSeq(entry.segs, 1, Len(entry.segs) - 1) \o d.segs)

\* the dependency chain of a record, root first
RECURSIVE RefChain(_)
RefChain(entry) ==
    IF RecordAt(entry).depends_on = Dot THEN <<entry>>
    ELSE Append(RefChain(RefParent(entry)), entry)

\* the closed-form affine matrix of a record for one value of its field,
\* right-handed: the offset in base units is the last column of a rotation
\* and is added to the translation
RefOffset(rec) ==
    IF "offset" \in rec.attrs
    THEN <<to_base_units(rec.offset[1], rec.offset_unit),
           to_base_units(rec.offset[2], rec.offset_unit),
           to_base_units(rec.offset[3], rec.offset_unit)>>
    ELSE Zeros3

RefLocal(rec, value) ==
    LET si == to_base_units(value, rec.units)
        o == RefOffset(rec)
        t == VecAdd(VecScale(si, rec.vector), o)
        R == rotate(si, rec.vector, o, FALSE).m
    IN  IF rec.transformation_type = "translation"
        THEN << <<1, 0, 0, t[1]>>, <<0, 1, 0, t[2]>>, <<0, 0, 1, t[3]>>, <<0, 0, 0, 1>> >>
        ELSE R

\* L(r1) x L(r2) x ... x L(rk) for a chain given root first; each record
\* with the value sample[entry] of its field
RECURSIVE RefProduct(_, _)
RefProduct(chain, sample) ==
    IF chain = <<>> THEN Identity4
    ELSE LET last == chain[Len(chain)]
         IN  matmul(RefProduct(SubSeq(chain, 1, Len(chain) - 1), sample),
                    RefLocal(RecordAt(last), sample[last]))

\* the first (for a scalar field: the only) value of a record's field
Entries == {Path(TRUE, key) : key \in DOMAIN h5file.records}
FirstSample == [entry \in Entries |-> RecordAt(entry).data[1]]

\* the frames of the container that a call resolves, as the code registers
\* them, with the entry each starts at
Frames == {[name |-> transformation_groups[i].key,
            entry |-> start_entry(transformation_groups[i].key, transformation_groups[i].val)] :
              i \in 1..Len(transformation_groups)}

\* the value a returned mapping holds for a frame
HasKey(mapping, key) == \E i \in 1..Len(mapping) : mapping[i].key = key
Lookup(mapping, key) == mapping[CHOOSE i \in 1..Len(mapping) : mapping[i].key = key].val

Finished(s) == tmatrices_flat[s].status # "none"

(***************************************************************************)
(* Lemmas about the model, used to read the verdicts below.                *)
(***************************************************************************)
\* Whenever a frame resolves, its family is the product of the local
\* families the code built, parent on the left, in root-first order.
RECURSIVE CodeProduct(_)
CodeProduct(chain) ==
    LET last == chain[Len(chain)]
        local == local_matrices(RecordAt(last), last, left_handed).val
    IN  IF Len(chain) = 1 THEN local
        ELSE apply_ufunc_matmul(CodeProduct(SubSeq(chain, 1, Len(chain) - 1)), local)

LemmaResolvedIsProduct ==
    \A i \in 1..Len(trace) :
        trace[i].ok => trace[i].val = CodeProduct(RefChain(trace[i].entry))

\* Right-handed, a chain resolves exactly if it is well formed apart from
\* the defects of rotate's callers named in C5, C7 and C12.
LemmaRotationChainsResolve ==
    \A i \in 1..Len(trace) :
        (AllPlain /\ AllRotations /\ ~left_handed) =>
            /\ trace[i].ok
            /\ trace[i].val.mats = <<RefProduct(RefChain(trace[i].entry), FirstSample)>>

(***************************************************************************)
(* Claims about the resolver                                               *)
(***************************************************************************)
\* C1: when transformation_matrices_from has ended on a container of plain
\* records (right-handed, the default), it has returned, for every frame,
\* the product L(r1) x ... x L(rk) of the local matrices of the frame's
\* chain, root first, each parent on the left.
C1_ChainProduct ==
    (Finished(FALSE) /\ AllPlain /\ ~left_handed) =>
        /\ tmatrices_flat[FALSE].status = "ok"
        /\ \A f \in Frames :
              /\ HasKey(tmatrices_flat[FALSE].val, f.name)
              /\ Lookup(tmatrices_flat[FALSE].val, f.name).matrix =
                    RefProduct(RefChain(f.entry), FirstSample)

\* C2: when both calls have ended on a container of plain records, both
\* have returned, and for every frame the last entry of the chain returned
\* with store_intermediate=True is the matrix returned without it.
C2_LastOfChainIsSingle ==
    (Finished(FALSE) /\ Finished(TRUE) /\ AllPlain) =>
        /\ tmatrices_flat[FALSE].status = "ok"
        /\ tmatrices_flat[TRUE].status = "ok"
        /\ \A f \in Frames :
              LET chain == Lookup(tmatrices_flat[TRUE].val, f.name).chain
              IN  /\ chain # <<>>
                  /\ chain[Len(chain)].val = Lookup(tmatrices_flat[FALSE].val, f.name).matrix

\* C3: with store_intermediate=True every frame's value is an ordered
\* mapping with exactly the records of the frame's own chain as keys, root
\* first, each entry the product of the local matrices from the root down
\* to that record.
C3_ChainRootFirst ==
    (Finished(TRUE) /\ AllPlain /\ ~left_handed) =>
        /\ tmatrices_flat[TRUE].status = "ok"
        /\ \A f \in Frames :
              LET value == Lookup(tmatrices_flat[TRUE].val, f.name)
                  ref == RefChain(f.entry)
              IN  /\ value.is_chain
                  /\ [j \in 1..Len(value.chain) |-> value.chain[j].key] = ref
                  /\ \A j \in 1..Len(ref) :
                        value.chain[j].val = RefProduct(SubSeq(ref, 1, j), FirstSample)

\* C4: a frame that starts at a record with depends_on == "." resolves to
\* exactly that record's local matrix, and no other record is visited.
C4_RootIsLocal ==
    \A i \in 1..Len(trace) :
        (AllPlain /\ ~left_handed /\ RecordAt(trace[i].entry).depends_on = Dot) =>
            /\ trace[i].ok
            /\ trace[i].visited = <<trace[i].entry>>
            /\ trace[i].val.mats =
                  <<RefLocal(RecordAt(trace[i].entry), RecordAt(trace[i].entry).data[1])>>

\* the number of samples of a record's field, 1 for a scalar
SampleCount(entry) == IF RecordAt(entry).ndim = 1 THEN Len(RecordAt(entry).data) ELSE 1
\* the records of a chain that carry a 1-D field
Parametric(chain) == {j \in 1..Len(chain) : RecordAt(chain[j]).ndim = 1}
\* every record with its first sample, the parametric record e with its k-th
SampleAt(e, k) == [entry \in Entries |-> RecordAt(entry).data[IF entry = e THEN k ELSE 1]]

\* C5: on a chain of well-formed rotation records without offsets (which
\* the defect of translate, C12, does not touch) of which at most one has a
\* 1-D field, of length N, the frame resolves to exactly N matrices, the k-th
\* the one of the chain with sample k as that record's value; a chain of
\* scalar fields resolves to exactly one matrix.
C5_OneMatrixPerSample ==
    \A i \in 1..Len(trace) :
        LET chain == RefChain(trace[i].entry)
            par == Parametric(chain)
        IN  (/\ ~left_handed
             /\ AllRotations
             /\ \A key \in DOMAIN h5file.records :
                    /\ WellFormed(h5file.records[key])
                    /\ "offset" \notin h5file.records[key].attrs
             /\ Cardinality(par) <= 1) =>
                /\ trace[i].ok
                /\ IF par = {}
                   THEN trace[i].val.mats = <<RefProduct(chain, FirstSample)>>
                   ELSE LET e == chain[CHOOSE j \in par : TRUE]
                        IN  trace[i].val.mats =
                               [k \in 1..SampleCount(e) |-> RefProduct(chain, SampleAt(e, k))]

\* C6: if a record that get_transformation_matrix was called for while a
\* frame was resolved lacks a required attribute, the resolution of the
\* frame has raised the error that names a missing attribute of that record
\* and the record's path, and neither call has a matrix for the frame.
C6_MissingAttributeNamed ==
    \A i \in 1..Len(trace) :
        \A j \in 1..Len(trace[i].visited) :
            LET entry == trace[i].visited[j]
                lacking == {a \in {"depends_on", "vector", "transformation_type", "units"} :
                               a \notin RecordAt(entry).attrs}
            IN  (IsRecord(entry) /\ lacking # {}) =>
                    /\ ~trace[i].ok
                    /\ trace[i].err.exc = "ValueError"
                    /\ trace[i].err.what = "attribute_not_found"
                    /\ trace[i].err.attr \in lacking
                    /\ trace[i].err.path = entry
                    /\ ~HasKey(transformation_matrices, trace[i].name)
                    /\ tmatrices[store_intermediate].status = "raised"
                    /\ tmatrices_flat[store_intermediate].status = "raised"
                    /\ tmatrices_flat[store_intermediate].err = trace[i].err

\* C6 witness: the resolution of a frame went from its starting record to
\* an ancestor that lacks `units`, and raised there.
C6_Witness ==
    \E i \in 1..Len(trace) :
        /\ Len(trace[i].visited) >= 2
        /\ IsRecord(trace[i].visited[Len(trace[i].visited)])
        /\ "units" \notin RecordAt(trace[i].visited[Len(trace[i].visited)]).attrs
        /\ trace[i].err.attr = "units"

\* C7: resolving a record raises the missing-unit error exactly if the
\* record has an `offset` attribute and no `offset_unit` attribute.
C7_MissingUnitIff ==
    \A i \in 1..Len(trace) :
        \A j \in 1..Len(trace[i].visited) :
            LET entry == trace[i].visited[j]
                attrs == RecordAt(entry).attrs
            IN  (IsRecord(entry)
                 /\ {"depends_on", "vector", "transformation_type", "units"} \subseteq attrs) =>
                    ((/\ ~trace[i].ok
                      /\ trace[i].err.what = "no_offset_units"
                      /\ trace[i].err.path = entry)
                     <=> ("offset" \in attrs /\ "offset_unit" \notin attrs))

\* C8: a cli invocation with an existing valid HDF5 input file, an output
\* path that does not exist yet and ends in .stl, .glb or .gltf, and every
\* other option at its default, runs to completion and exits with code 0.
C8_CliExitsZero ==
    ( /\ cli_result # NoCall
      /\ cli_args.file = [exists |-> TRUE, isfile |-> TRUE, is_hdf5 |-> TRUE]
      /\ ~cli_args.output_exists
      /\ cli_args.file_format \in SupportedFormats
      /\ ~cli_args.force
      /\ cli_args.config = NoConfig
      /\ cli_args.size = 1
      /\ ~cli_args.blender
      /\ ~cli_args.left_handed )
    => (cli_result.exit_code = 0 /\ cli_result.exc = "")

\* C9: get_mesh_from_stl of either module, called without a unit, returns
\* indices and vertices such that vertices[indices[i][j]] is corner j of
\* triangle i of the file, for every triangle, in the file's order and
\* unscaled.
C9_RoundTrip ==
    \A module \in Modules :
        (mesh_result # NoCall /\ mesh_result[module] # NoCall /\ unit = "None")
        => LET got == mesh_result[module]
           IN  /\ got.ok
               /\ Len(got.indices) = Len(stl_vectors)
               /\ \A i \in 1..Len(got.indices) : \A j \in 1..3 :
                     /\ got.indices[i][j] + 1 \in 1..Len(got.vertices)
                     /\ got.vertices[got.indices[i][j] + 1] = stl_vectors[i][j]

\* C10: write_stl_file, given a mapping in which some frame's value is an
\* intermediate chain, fails with the feature-unsupported error, before
\* any mesh is built and without a file being written.
C10_ChainRejected ==
    ( /\ stl_result # NoCall
      /\ \E i \in 1..Len(cli_input.transformation_matrices) :
            cli_input.transformation_matrices[i].val.is_chain )
    => /\ stl_result.status = "raised"
       /\ stl_result.err.exc = "NotImplementedError"
       /\ stl_result.cubes_built = 0
       /\ ~stl_result.file_written

\* the last row of an affine matrix
LastRowAffine(m) == m[4] = <<0, 0, 0, 1>>
\* every matrix of a family, and of every family of a chain
FamilyAffine(family) == \A k \in 1..Len(family.mats) : LastRowAffine(family.mats[k])
ChainAffine(chain) == \A k \in 1..Len(chain) : FamilyAffine(chain[k].val)

\* C11: every matrix the resolver returns, in either handedness, has the
\* last row [0,0,0,1]: the single matrices, every member of a matrix
\* family and every entry of an intermediate chain.
C11_LastRowAffine ==
    /\ \A i \in 1..Len(trace) :
          trace[i].ok => (FamilyAffine(trace[i].val) /\ ChainAffine(trace[i].chain))
    /\ \A s \in BOOLEAN :
          /\ tmatrices[s].status = "ok" =>
                \A i \in 1..Len(tmatrices[s].val) :
                    LET value == tmatrices[s].val[i].val
                    IN  IF value.is_chain THEN ChainAffine(value.chain)
                        ELSE FamilyAffine(value.matrix)
          /\ tmatrices_flat[s].status = "ok" =>
                \A i \in 1..Len(tmatrices_flat[s].val) :
                    LET value == tmatrices_flat[s].val[i].val
                    IN  IF value.is_chain
                        THEN \A k \in 1..Len(value.chain) : LastRowAffine(value.chain[k].val)
                        ELSE LastRowAffine(value.matrix)

\* C11 witness: a left-handed call with the intermediate chain has returned
\* for a chain of two records that holds a translation and a record with a
\* non-zero offset.
C11_Witness ==
    /\ left_handed
    /\ tmatrices_flat[TRUE].status = "ok"
    /\ \E key \in DOMAIN h5file.records :
          h5file.records[key].transformation_type = "translation"
    /\ \E key \in DOMAIN h5file.records : "offset" \in h5file.records[key].attrs
    /\ \E i \in 1..Len(tmatrices_flat[TRUE].val) :
          Len(tmatrices_flat[TRUE].val[i].val.chain) = 2

\* C12: translate(translation, offset) with left_handed=False returns the
\* 4x4 matrix with the identity as upper-left 3x3 block, last row [0,0,0,1]
\* and last column (t_x + o_x, t_y + o_y, t_z + o_z, 1), the offset taken
\* as zero when it is None.
C12_TranslateRightHanded ==
    (call.fn = "translate" /\ ~call.left_handed /\ result # NoCall) =>
        LET t == call.translation
            o == IF call.offset.given THEN call.offset.v ELSE <<0, 0, 0>>
        IN  /\ result.ok
            /\ result.m = << <<1, 0, 0, t[1] + o[1]>>,
                             <<0, 1, 0, t[2] + o[2]>>,
                             <<0, 0, 1, t[3] + o[3]>>,
                             <<0, 0, 0, 1>> >>

\* a frame whose own chain is made of plain rotation records
ValidFrame(f) ==
    LET chain == RefChain(f.entry)
    IN  \A j \in 1..Len(chain) :
            Plain(RecordAt(chain[j])) /\ RecordAt(chain[j]).transformation_type = "rotation"

\* C15: a failure while one frame is resolved aborts only that frame: when
\* the call has ended, the caller has the matrix of every registered frame
\* whose own chain is valid, whichever other frame of the container failed.
C15_FailureIsPerFrame ==
    (Finished(FALSE) /\ ~left_handed) =>
        \A f \in Frames :
            ValidFrame(f) =>
                /\ tmatrices_flat[FALSE].status = "ok"
                /\ HasKey(tmatrices_flat[FALSE].val, f.name)
                /\ Lookup(tmatrices_flat[FALSE].val, f.name).matrix =
                      RefProduct(RefChain(f.entry), FirstSample)

\* a depends_on entry, and one under the entry/process sub-tree
IsDependsOnEntry(name) == name.segs[Len(name.segs)] = "depends_on"
UnderProcess(name) == Len(name.segs) > 2 /\ name.segs[1] = "entry" /\ name.segs[2] = "process"
\* the name without the leading entry/ and the trailing /depends_on
FrameName(name) == Path(FALSE, SubSeq(name.segs, 2, Len(name.segs) - 1))

\* C16: with include_process false no frame is registered for a depends_on
\* entry under entry/process; with include_process true those are
\* registered like any other; every depends_on entry outside the process
\* sub-tree is registered in both cases, under its name without the
\* leading entry/ and the trailing /depends_on, with its value.
C16_ProcessSubtreeOnly ==
    (call.fn = "visititems" /\ result # NoCall) =>
        LET expected == {d \in {call.datasets[i] : i \in 1..Len(call.datasets)} :
                            /\ IsDependsOnEntry(d.name)
                            /\ call.include_process \/ ~UnderProcess(d.name)}
        IN  /\ {result.groups[i].key : i \in 1..Len(result.groups)} =
                  {FrameName(d.name) : d \in expected}
            /\ \A d \in expected :
                  \E i \in 1..Len(result.groups) :
                      result.groups[i] = [key |-> FrameName(d.name), val |-> d.value]

\* the narrowest of the three index types that can hold an index
Narrowest(w) ==
    IF w.hi = 0 /\ w.lo <= 255 THEN "uint8"
    ELSE IF w.hi = 0 THEN "uint16"
    ELSE IF w.hi <= 65535 THEN "uint32"
    ELSE ""

\* C17 as stated: the narrowest unsigned width of 8, 16, 32 bits that can
\* represent the maximum index is chosen (255 gets 8 bits, 65535 gets 16
\* bits), the cast leaves the index unchanged, and the oversized-mesh error
\* is raised only if the maximum index does not fit 32 bits.
C17_NarrowestWidth ==
    (call.fn = "index_dtype" /\ result # NoCall) =>
        /\ result.dtype = Narrowest(call.largest)
        /\ result.stored = call.largest
        /\ result.status = "raised" <=> Narrowest(call.largest) = ""

\* C17 amended: the narrowest width whose largest value is strictly above
\* the maximum index is chosen (so that no index is the largest value of
\* its type: 255 gets 16 bits, 65535 gets 32 bits), the cast leaves the
\* index unchanged, and the error is raised exactly if the maximum index
\* is 2^32 - 1 or more.
C17_NarrowestStrictWidth ==
    (call.fn = "index_dtype" /\ result # NoCall) =>
        LET next == [hi |-> IF call.largest.lo = 65535 THEN call.largest.hi + 1
                            ELSE call.largest.hi,
                     lo |-> IF call.largest.lo = 65535 THEN 0 ELSE call.largest.lo + 1]
        IN  /\ result.dtype = Narrowest(next)
            /\ result.stored = call.largest
            /\ result.status = "raised" <=> Narrowest(next) = ""

\* C17 witness: a maximum index of exactly 255 was given 16 bits.
C17_Witness ==
    /\ call.fn = "index_dtype"
    /\ call.largest = [hi |-> 0, lo |-> 255]
    /\ result # NoCall
    /\ result.dtype = "uint16"

\* C18: for every geometry packed by set_data the byte offset at which its
\* vertex blob starts is a multiple of 4, whatever the blob lengths, the
\* index width and the number of geometries packed before it.
C18_VertexBlobAligned ==
    (call.fn = "set_data" /\ result # NoCall /\ result.status = "returned") =>
        \A k \in 1..Len(result.bufferViews) :
            result.bufferViews[k].target = "ARRAY_BUFFER" =>
                result.bufferViews[k].byteOffset % 4 = 0

\* the geometry, nodes and buffer data of every frame are in the object
FullyBuilt(object, input) ==
    /\ object.has_data
    /\ Len(object.scene_nodes) >= Len(input.transformation_matrices)
    /\ Len(object.accessors) = 2 * Len(object.meshes)
    /\ Len(object.bufferViews) = 2 * Len(object.meshes)

\* C13: the output file is written in one final step, after all geometry,
\* nodes and buffer data have been built; a run that ends in any error has
\* not created or modified the output file.
C13_WrittenLastOrNever ==
    /\ (cli_result # NoCall /\ cli_result.exit_code # 0) => cli_result.line < 383
    /\ (stl_result # NoCall /\ stl_result.status = "raised") => ~stl_result.file_written
    /\ (stl_result # NoCall /\ stl_result.file_written) =>
            /\ stl_pc = "done"
            /\ Len(stl_result.file) = Len(cli_input.transformation_matrices)
    /\ (gltf_result # NoCall /\ gltf_result.status = "raised") =>
            ~gltf_result.file_written /\ gltf_result.file = NoCall
    /\ (gltf_result # NoCall /\ gltf_result.file_written) =>
            /\ gltf_pc = "done"
            /\ gltf_result.file = gltf
            /\ FullyBuilt(gltf_result.file, gltf_input)
    /\ (gltf_input # NoCall /\ gltf_pc # "done") => gltf_result = NoCall
    /\ (cli_input # NoCall /\ stl_pc # "done") => stl_result = NoCall

\* C13 witness: write_gltf_file has built geometry and nodes, then raised,
\* and has left no file.
C13_Witness ==
    /\ gltf_result # NoCall
    /\ gltf_result.status = "raised"
    /\ Len(gltf_indices) > 0
    /\ Len(gltf.nodes) > 0
    /\ ~gltf_result.file_written

\* C14: the failure conditions of the core are each surfaced as a distinct
\* error kind: two failures under different conditions differ in the kind
\* (the class) of the error.
C14_DistinctKinds ==
    (call.fn = "failures" /\ result # NoCall) =>
        /\ result.first.exc # "" /\ result.second.exc # ""
        /\ call.first # call.second => result.first.exc # result.second.exc

\* the elements of a matrix in column-major order
ColumnMajor(m) ==
    <<m[1][1], m[2][1], m[3][1], m[4][1], m[1][2], m[2][2], m[3][2], m[4][2],
      m[1][3], m[2][3], m[3][3], m[4][3], m[1][4], m[2][4], m[3][4], m[4][4]>>
\* the entries of a resolved chain
ChainEntries(value) == SelectSeq(value.chain, LAMBDA e : e.key # StlShift)
\* node number n (from 0) of an object
NodeAt(object, n) == object.nodes[n + 1]
\* every external file named by the placement entries can be read
ReadableFiles(input) ==
    \A name \in DOMAIN config_of(input) :
        "file" \in config_of(input)[name].keys => StlFile(config_of(input)[name].file) # <<>>

\* the nodes of frame i are as C19 says
FrameEmitted(object, frame, root) ==
    /\ NodeAt(object, root).name = [j |-> -1, text |-> frame.key]
    /\ IF frame.val.is_chain
       THEN LET entries == ChainEntries(frame.val)
                children == NodeAt(object, root).children
            IN  /\ Len(children) = Len(entries)
                /\ \A j \in 1..Len(children) :
                       /\ NodeAt(object, children[j]).matrix = ColumnMajor(entries[j].val)
                       /\ NodeAt(object, children[j]).name.j = j - 1
                       /\ NodeAt(object, children[j]).name.text.segs # <<>>
                       /\ \A k \in 1..Len(object.scene_nodes) :
                              object.scene_nodes[k] # children[j]
       ELSE /\ NodeAt(object, root).children = <<>>
            /\ NodeAt(object, root).matrix = ColumnMajor(frame.val.matrix)

\* C19: write_gltf_file emits, for each frame whose value is a chain, one
\* child node per chain entry with that entry's matrix in column-major
\* order, under one parent node named after the frame; for each frame with
\* a single matrix one node named after the frame holding that matrix; the
\* scene's root list holds exactly these per-frame nodes, plus the beam node.
C19_NodesPerFrame ==
    (gltf_result # NoCall /\ ReadableFiles(gltf_input)) =>
        /\ gltf_result.status = "returned"
        /\ LET object == gltf_result.file
               frames == gltf_input.transformation_matrices
           IN  /\ Len(object.scene_nodes) =
                      Len(frames) + (IF gltf_input.show_beam THEN 1 ELSE 0)
               /\ \A i \in 1..Len(frames) :
                      FrameEmitted(object, frames[i], object.scene_nodes[i])
               /\ gltf_input.show_beam =>
                      NodeAt(object, object.scene_nodes[Len(frames) + 1]).name.text.segs
                          = <<"beam">>

\* the frames with an external-file override, and the files they name
Overridden(input) ==
    {i \in 1..Len(input.transformation_matrices) :
        /\ input.transformation_matrices[i].key \in DOMAIN config_of(input)
        /\ "file" \in config_of(input)[input.transformation_matrices[i].key].keys}
OverrideFiles(input) ==
    {config_of(input)[input.transformation_matrices[i].key].file : i \in Overridden(input)}
\* the geometries a minimal set has for the frames
FrameGeometries(input) ==
    Cardinality(OverrideFiles(input)) +
    (IF Overridden(input) # 1..Len(input.transformation_matrices) THEN 1 ELSE 0)

\* C20: the set of geometries write_gltf_file builds is minimal: one
\* instance of the default shape if some frame has no external-file
\* override, one geometry per distinct external file, and one line-segment
\* geometry for the beam if and only if show_beam is set.
C20_MinimalGeometries ==
    /\ (gltf_input # NoCall /\ gltf_pc \in {"append_nodes", "beam"}) =>
            Len(gltf_indices) = FrameGeometries(gltf_input)
    /\ (gltf_result # NoCall /\ ReadableFiles(gltf_input)) =>
            /\ gltf_result.status = "returned"
            /\ Len(gltf_indices) =
                   FrameGeometries(gltf_input) + (IF gltf_input.show_beam THEN 1 ELSE 0)
            /\ gltf_input.show_beam =>
                   gltf_indices[Len(gltf_indices)] = [dtype |-> "uint8", size |-> 2]

\* the object a reference read at a location names: a reference with a path
\* separator is a path of the container, any other a sibling of the location
Referenced(location, reference) ==
    IF reference.abs \/ Len(reference.segs) > 1 THEN reference.segs
    ELSE SubSeq(location.segs, 1, Len(location.segs) - 1) \o reference.segs

\* C21: a depends_on other than "." that contains a path separator is used
\* as a path within the container, any other is looked up as a sibling of
\* the record; the same rule applies to the frame-level depends_on.
C21_ParentLookup ==
    (call.fn = "lookup" /\ result # NoCall) =>
        H5Key(result.entry) = Referenced(call.at, call.depends_on)

\* the view of a set_data result with the number k (from 0)
ViewAt(r, k) == r.bufferViews[k + 1]
\* the first byte after a view
ViewEnd(view) == view.byteOffset + view.byteLength

\* C22: the number of zero bytes between a geometry's index blob and its
\* vertex blob is (index blob length) modulo (vertex blob length), for
\* every geometry, whatever was packed before it.
C22_PaddingIsModulo ==
    (call.fn = "set_data" /\ result # NoCall /\ result.status = "returned") =>
        \A i \in 1..Len(call.indices_list) :
            ViewAt(result, 2 * i - 1).byteOffset - ViewEnd(ViewAt(result, 2 * i - 2))
                = (call.indices_list[i].size * itemsize(call.indices_list[i].dtype))
                  % (call.vertices_list[i].count * 12)

RECURSIVE SumLengths(_)
SumLengths(pieces) ==
    IF pieces = <<>> THEN 0 ELSE Head(pieces).length + SumLengths(Tail(pieces))
\* the position in the binary data of a geometry's index or vertex blob
BlobStart(data, blob, i) ==
    LET n == CHOOSE k \in 1..Len(data) : data[k].blob = blob /\ data[k].geometry = i
    IN  SumLengths(SubSeq(data, 1, n - 1))

\* C23: after set_data with n geometries the declared byteLength is the
\* length of the binary blob; there are 2n views and 2n accessors, numbers
\* 2i and 2i+1 describing the index and vertex blob of geometry i; every
\* view lies within the buffer, the views do not overlap and are in
\* increasing order; the bytes of each view are that geometry's blob.
C23_LayoutConsistent ==
    (call.fn = "set_data" /\ result # NoCall /\ result.status = "returned") =>
        LET n == Len(call.indices_list)
        IN  /\ result.byteLength = SumLengths(result.binary_data)
            /\ Len(result.bufferViews) = 2 * n
            /\ Len(result.accessors) = 2 * n
            /\ \A k \in 0..(2 * n - 1) :
                   /\ result.accessors[k + 1].bufferView = k
                   /\ ViewEnd(ViewAt(result, k)) <= result.byteLength
                   /\ k > 0 => ViewEnd(ViewAt(result, k - 1)) <= ViewAt(result, k).byteOffset
            /\ \A i \in 1..n :
                   /\ ViewAt(result, 2 * i - 2).byteOffset
                          = BlobStart(result.binary_data, "indices", i)
                   /\ ViewAt(result, 2 * i - 2).byteLength
                          = call.indices_list[i].size * itemsize(call.indices_list[i].dtype)
                   /\ ViewAt(result, 2 * i - 2).target = "ELEMENT_ARRAY_BUFFER"
                   /\ result.accessors[2 * i - 1].count = call.indices_list[i].size
                   /\ result.accessors[2 * i - 1].componentType = call.indices_list[i].dtype
                   /\ ViewAt(result, 2 * i - 1).byteOffset
                          = BlobStart(result.binary_data, "vertices", i)
                   /\ ViewAt(result, 2 * i - 1).byteLength = call.vertices_list[i].count * 12
                   /\ ViewAt(result, 2 * i - 1).target = "ARRAY_BUFFER"
                   /\ result.accessors[2 * i].count = call.vertices_list[i].count
                   /\ result.accessors[2 * i].componentType = "float32"

\* C23 witness: two geometries were packed, the second with padding.
C23_Witness ==
    /\ call.fn = "set_data"
    /\ result # NoCall
    /\ result.status = "returned"
    /\ Len(call.indices_list) = 2
    /\ ViewAt(result, 3).byteOffset > ViewEnd(ViewAt(result, 2))

\* the translation by a vector
Translation(v) == << <<1, 0, 0, v[1]>>, <<0, 1, 0, v[2]>>, <<0, 0, 1, v[3]>>, <<0, 0, 0, 1>> >>
\* the rotation an entry of the placement file configures about one axis
ConfiguredRotation(entry, key, axis) ==
    IF key \in entry.keys THEN rotate(entry[key] \div 90, axis, Zeros3, FALSE).m ELSE Identity4
\* T(x, y, z) x Rz x Ry x Rx of an entry of the placement file
Placement(entry) ==
    matmul(Translation(<<IF "x" \in entry.keys THEN entry.x ELSE 0,
                         IF "y" \in entry.keys THEN entry.y ELSE 0,
                         IF "z" \in entry.keys THEN entry.z ELSE 0>>),
           matmul(ConfiguredRotation(entry, "rot_z", <<0, 0, 1>>),
                  matmul(ConfiguredRotation(entry, "rot_y", <<0, 1, 0>>),
                         ConfiguredRotation(entry, "rot_x", <<1, 0, 0>>))))
\* the resolved cumulative matrix of a frame
Cumulative(value) == IF value.is_chain THEN value.chain[Len(value.chain)].val ELSE value.matrix
\* the final matrix emitted for the frame with the root node `root`
FinalMatrix(object, root) ==
    IF NodeAt(object, root).children = <<>> THEN NodeAt(object, root).matrix
    ELSE NodeAt(object, NodeAt(object, root).children[Len(NodeAt(object, root).children)]).matrix

\* C24: for a frame with an entry in the placement lookup the emitted final
\* matrix is M x T(x, y, z) x R with R = Rz x Ry x Rx; a frame without an
\* entry is emitted with its resolved matrix unchanged.
C24_PlacementComposed ==
    (gltf_result # NoCall /\ ReadableFiles(gltf_input) /\ ~gltf_input.show_beam) =>
        /\ gltf_result.status = "returned"
        /\ \A i \in 1..Len(gltf_input.mapping_at_call) :
               LET frame == gltf_input.mapping_at_call[i]
                   final == FinalMatrix(gltf_result.file, gltf_result.file.scene_nodes[i])
               IN  IF frame.key \in DOMAIN config_of(gltf_input)
                   THEN final = ColumnMajor(matmul(Cumulative(frame.val),
                                                   Placement(config_of(gltf_input)[frame.key])))
                   ELSE final = ColumnMajor(Cumulative(frame.val))

\* the index and vertex arrays of the geometry a frame is drawn with
GeometryOf(input, name) ==
    IF name \in DOMAIN config_of(input) /\ "file" \in config_of(input)[name].keys
    THEN [indices |-> 3 * Len(StlFile(config_of(input)[name].file)),
          vertices |-> Cardinality({StlFile(config_of(input)[name].file)[t][c] :
                                       t \in 1..Len(StlFile(config_of(input)[name].file)),
                                       c \in 1..3})]
    ELSE IF input.shape = "cube" THEN [indices |-> 36, vertices |-> 8]
    ELSE [indices |-> 30, vertices |-> 11]
\* mesh k of an object is drawn from arrays of these sizes
MeshDraws(object, k, geometry) ==
    /\ k \in 0..(Len(object.meshes) - 1)
    /\ object.meshes[k + 1].indices = 2 * k
    /\ object.meshes[k + 1].POSITION = 2 * k + 1
    /\ object.accessors[2 * k + 1].type = "SCALAR"
    /\ object.accessors[2 * k + 1].count = geometry.indices
    /\ object.accessors[2 * k + 2].type = "VEC3"
    /\ object.accessors[2 * k + 2].count = geometry.vertices

\* C25: in the written scene every node's mesh reference is a valid mesh
\* index and points to the right geometry (the shared default shape, the
\* geometry of the frame's external file, the beam's line segment), and
\* mesh k's primitive references accessors 2k and 2k+1.
C25_MeshReferences ==
    (gltf_result # NoCall /\ ReadableFiles(gltf_input)) =>
        /\ gltf_result.status = "returned"
        /\ LET object == gltf_result.file
               frames == gltf_input.mapping_at_call
           IN  /\ \A i \in 1..Len(frames) :
                      LET root == NodeAt(object, object.scene_nodes[i])
                      IN  /\ MeshDraws(object, root.mesh, GeometryOf(gltf_input, frames[i].key))
                          /\ \A j \in 1..Len(root.children) :
                                 NodeAt(object, root.children[j]).mesh = root.mesh
               /\ gltf_input.show_beam =>
                      MeshDraws(object,
                                NodeAt(object, object.scene_nodes[Len(frames) + 1]).mesh,
                                [indices |-> 2, vertices |-> 2])

ShapeTriangles(shape) == IF shape = "cube" THEN 12 ELSE 10
\* the triangles of a written flat triangle file
RECURSIVE FileTriangles(_)
FileTriangles(file) ==
    IF file = <<>> THEN 0 ELSE file[1].triangles + FileTriangles(Tail(file))

Rooted == \A key \in DOMAIN h5file.records : "depends_on" \in h5file.records[key].attrs
Reversed(q) == [j \in 1..Len(q) |-> q[Len(q) + 1 - j]]
IsPrefix(p, q) == Len(p) <= Len(q) /\ SubSeq(q, 1, Len(p)) = p

\* C28 as stated: on a container whose references are acyclic and end at a
\* root, the resolution of a frame visits each record of the frame's chain
\* exactly once, leaf to root, the recursion depth being the chain length.
C28_WholeChainVisited ==
    Rooted => \A i \in 1..Len(trace) :
                  trace[i].visited = Reversed(RefChain(trace[i].entry))

\* C28, amended: on such a container the resolution of a frame ends, and it
\* has visited the records of the frame's chain leaf to root, none twice,
\* up to the first record whose processing raises; a resolution that
\* returns has visited the whole chain, to the depth of the chain's length.
C28_VisitedOnceLeafToRoot ==
    Rooted => \A i \in 1..Len(trace) :
                  /\ IsPrefix(trace[i].visited, Reversed(RefChain(trace[i].entry)))
                  /\ trace[i].visited # <<>>
                  /\ trace[i].ok => trace[i].visited = Reversed(RefChain(trace[i].entry))
                  /\ ~trace[i].ok => trace[i].err # NoErr

\* C28 witness: a chain of two records was resolved by sibling lookup, leaf first
C28_Witness ==
    /\ Rooted
    /\ \E i \in 1..Len(trace) :
          /\ trace[i].ok
          /\ Len(trace[i].visited) >= 2
          /\ ~HasSlash(RecordAt(trace[i].entry).depends_on)
          /\ trace[i].visited = Reversed(RefChain(trace[i].entry))

\* the two records of a resolve call, and the samples of their fields
ParentRecord == call.records[H5Key(RecordEntry(1))]
NodeRecord == call.records[H5Key(RecordEntry(2))]
Resolved == call.fn = "resolve" /\ result # NoCall
\* the parent's matrix for its sample j times the node's for its sample k
SampleProduct(j, k) ==
    matmul(RefLocal(ParentRecord, ParentRecord.data[j]), RefLocal(NodeRecord, NodeRecord.data[k]))
Smaller(a, b) == IF a < b THEN a ELSE b
Larger(a, b) == IF a < b THEN b ELSE a

C29_FirstSampleOfEveryField ==
    ( /\ Resolved
      /\ ~call.left_handed
      /\ Len(ParentRecord.data) >= 1 /\ Len(NodeRecord.data) >= 1 )
    => /\ result.flat.ok
       /\ ~result.flat.val.is_chain
       /\ result.flat.val.matrix = SampleProduct(1, 1)
       /\ result.flat_chain.ok
       /\ result.flat_chain.val.chain =
              << [key |-> RecordEntry(1),
                  val |-> RefLocal(ParentRecord, ParentRecord.data[1])],
                 [key |-> RecordEntry(2), val |-> SampleProduct(1, 1)] >>

=============================================================================
